---- MODULE Spec2Model ----
(***************************************************************************)
(* A model of the LangChain-Tools scripts: the tool wrappers that guard    *)
(* one provider call each, the credential gates and prompts of the mains,  *)
(* the single crew run a main starts, and compare_trends' loop.            *)
(*                                                                         *)
(* Text is a sequence of string tokens (an f-string is the sequence of     *)
(* its pieces), so that what a returned string carries can be inspected.   *)
(* Keyboard entries are sequences of one-character strings.                *)
(***************************************************************************)
EXTENDS Integers, Sequences, FiniteSets, TLC

VARIABLES
    script,      \* the script whose module this process has loaded
    environ,     \* the process environment as os.getenv reads it at import
    absent,      \* the optional packages that are not installed
    pc,          \* where main (or the tool caller) stands
    typed,       \* what was typed at the prompts of the last input step
    request,     \* what get_user_input / the loop prompt handed to main
    kickoffs,    \* how many times main has called crew.kickoff()
    attempts,    \* the tool invocations of the running crew, in order
    out,         \* what main printed, prompts and complaints about an entry aside
    uncaught,    \* the exception that ended main, or NoExc
    tool_call,   \* the last direct tool invocation: tool and arguments
    tool_ret,    \* what that invocation did: returned value or raised
    inner,       \* the exception raised inside that invocation, or NoExc
    outbound,    \* the provider calls that invocation made, in order
    term_list,   \* compare_trends: the split and stripped terms
    idx,         \* compare_trends: terms handled so far
    comparison_results  \* compare_trends: what each iteration appended

vars == <<script, environ, absent, pc, typed, request, kickoffs, attempts, out,
          uncaught,
          tool_call, tool_ret, inner, outbound,
          term_list, idx, comparison_results>>

mainVars  == <<typed, request, kickoffs, attempts, out, uncaught>>
toolVars  == <<tool_call, tool_ret, inner, outbound>>
trendVars == <<term_list, idx, comparison_results>>

----------------------------------------------------------------------------
(* Python values *)

None == "<None>"

\* `if v:` / `not v` on a value that is a str or None
Truthy(v) == v # None /\ v # ""

Range(s) == {s[i] : i \in DOMAIN s}

Min(a, b) == IF a <= b THEN a ELSE b
Max(a, b) == IF a >= b THEN a ELSE b

\* what os.getenv can give for a variable: unset, set to "", set to a value
CredValues == {None, "", "key"}

----------------------------------------------------------------------------
(* Exceptions *)

\* ImportError and RuntimeError derive from Exception; KeyboardInterrupt
\* derives from BaseException only.
ExceptionSubclasses == {"ImportError", "RuntimeError", "KeyError", "TypeError",
                        "ValueError", "AttributeError", "ParseError",
                        "TimeoutError"}
ProviderExcClasses  == {"ImportError", "RuntimeError", "KeyboardInterrupt"}
Msgs == {"boom"}

NoExc == [cls |-> "none", msg |-> ""]
Exc(c, m) == [cls |-> c, msg |-> m]
ProviderExcs == {Exc(c, m) : c \in ProviderExcClasses, m \in Msgs}

Returned(v) == [kind |-> "return", value |-> v, exc |-> NoExc]
Raised(e)   == [kind |-> "raise", value |-> <<>>, exc |-> e]
NoRet       == [kind |-> "none", value |-> <<>>, exc |-> NoExc]

\* what one tool invocation did: its outcome, the exception raised inside
\* its try block (NoExc when none), and its provider calls
Did(r, e, c) == [ret |-> r, inner |-> e, calls |-> c]

\* a provider call either raises or returns a value
ProvRaise(e)  == [kind |-> "raise", exc |-> e, value |-> None]
ProvReturn(v) == [kind |-> "return", exc |-> NoExc, value |-> v]
ProvRaises == {ProvRaise(e) : e \in ProviderExcs}

----------------------------------------------------------------------------
(* The handlers every tool wrapper ends with *)

\* a handler that lets the exception through
reraise(e, rest) == Raised(e)

\* except Exception as e: return f"Error<rest>{str(e)}"
except_Exception(e, rest) ==
    IF e.cls \in ExceptionSubclasses
    THEN Returned(<<"Error", rest, e.msg>>)
    ELSE Raised(e)

\* except ImportError: return "Error<hint>"
\* except Exception as e: return f"Error<rest>{str(e)}"
except_ImportError(e, hint, rest) ==
    IF e.cls = "ImportError"
    THEN Returned(<<"Error", hint>>)
    ELSE except_Exception(e, rest)

\* str() of the integers the wrappers print
Str(n) ==
    CASE n = 0 -> "0" [] n = 1 -> "1" [] n = 2 -> "2" [] n = 3 -> "3"
      [] n = 4 -> "4" [] n = 5 -> "5" [] n = 200 -> "200" [] n = 500 -> "500"
      [] OTHER -> "n"

----------------------------------------------------------------------------
(* Module globals: os.getenv at import time *)

EnvNames == {"GEMINI_API_KEY", "GOOGLE_API_KEY", "GOOGLE_CSE_ID",
             "SERPER_API_KEY", "ZENGUARD_API_KEY", "APIFY_API_TOKEN",
             "YDC_API_KEY", "WRITER_API_KEY", "WOLFRAM_ALPHA_APPID",
             "SERP_API_KEY", "WRITER_GRAPH_ID", "WRITER_APP_ID",
             "ASKNEWS_CLIENT_ID", "ASKNEWS_CLIENT_SECRET",
             "VECTARA_API_KEY", "VECTARA_CORPUS_KEY", "AGENTQL_API_KEY",
             "ADS4GPTS_API_KEY"}

GEMINI_API_KEY      == environ["GEMINI_API_KEY"]
GOOGLE_API_KEY      == environ["GOOGLE_API_KEY"]
GOOGLE_CSE_ID       == environ["GOOGLE_CSE_ID"]
SERPER_API_KEY      == environ["SERPER_API_KEY"]
ZENGUARD_API_KEY    == environ["ZENGUARD_API_KEY"]
APIFY_API_TOKEN     == environ["APIFY_API_TOKEN"]
YDC_API_KEY         == environ["YDC_API_KEY"]
WRITER_API_KEY      == environ["WRITER_API_KEY"]
WOLFRAM_ALPHA_APPID == environ["WOLFRAM_ALPHA_APPID"]
SERP_API_KEY        == environ["SERP_API_KEY"]
ASKNEWS_CLIENT_ID     == environ["ASKNEWS_CLIENT_ID"]
ASKNEWS_CLIENT_SECRET == environ["ASKNEWS_CLIENT_SECRET"]
VECTARA_API_KEY     == environ["VECTARA_API_KEY"]
VECTARA_CORPUS_KEY  == environ["VECTARA_CORPUS_KEY"]
AGENTQL_API_KEY     == environ["AGENTQL_API_KEY"]

\* the variables each script reads with os.getenv at import
ScriptEnv(s) ==
    CASE s = "PAID_google_search" -> {"GEMINI_API_KEY", "GOOGLE_API_KEY", "GOOGLE_CSE_ID"}
      [] s = "google_serper"      -> {"GEMINI_API_KEY", "SERPER_API_KEY"}
      [] s = "PAID_zenguard_ai"   -> {"GEMINI_API_KEY", "ZENGUARD_API_KEY"}
      [] s = "arxiv"              -> {"GEMINI_API_KEY"}
      [] s = "apify_actor"        -> {"GEMINI_API_KEY", "APIFY_API_TOKEN"}
      [] s = "PAID_you"           -> {"GEMINI_API_KEY", "YDC_API_KEY"}
      [] s = "writer_tools"       -> {"GEMINI_API_KEY", "WRITER_API_KEY"}
      [] s = "wolfram_alpha"      -> {"GEMINI_API_KEY", "WOLFRAM_ALPHA_APPID"}
      [] s = "google_trends"      -> {"GEMINI_API_KEY", "SERP_API_KEY"}
      [] s = "google_scholar"     -> {"GEMINI_API_KEY", "SERP_API_KEY"}
      [] s = "wikipedia"          -> {"GEMINI_API_KEY"}
      [] s = "ask_news"           -> {"GEMINI_API_KEY", "ASKNEWS_CLIENT_ID",
                                      "ASKNEWS_CLIENT_SECRET"}
      [] s = "vectara"            -> {"GEMINI_API_KEY", "VECTARA_API_KEY",
                                      "VECTARA_CORPUS_KEY"}
      [] s = "agentQL"            -> {"GEMINI_API_KEY", "AGENTQL_API_KEY"}
      [] s = "WAITLIST_ads4gpts"  -> {"GEMINI_API_KEY", "ADS4GPTS_API_KEY"}
      [] s = "youtube"            -> {"GEMINI_API_KEY"}

\* the variables a script's tools read with os.getenv when they are called
CallEnv(s) ==
    IF s = "writer_tools" THEN {"WRITER_GRAPH_ID", "WRITER_APP_ID"} ELSE {}

\* the environments a process running script s can have been started in
Environments(s) ==
    {[n \in EnvNames |-> IF n \in ScriptEnv(s) \cup CallEnv(s) THEN g[n] ELSE None] :
        g \in [ScriptEnv(s) \cup CallEnv(s) -> CredValues]}

----------------------------------------------------------------------------
(* Tool wrappers.  Each takes its arguments and what its provider call     *)
(* does (prov), and gives Did(outcome, exception raised inside, calls).    *)

\* formatting branches that test the type the provider was queried with
sections_by_queried_type(result_type, keys) ==
    CASE result_type = "news" ->
            IF "news" \in keys THEN <<"**Latest News:**">> ELSE <<>>
      [] result_type = "images" ->
            IF "images" \in keys THEN <<"**Image Results:**">> ELSE <<>>
      [] result_type = "places" ->
            IF "places" \in keys THEN <<"**Places Results:**">> ELSE <<>>
      [] OTHER ->
            (IF "knowledgeGraph" \in keys THEN <<"**Knowledge Graph:**">> ELSE <<>>)
            \o (IF "organic" \in keys THEN <<"**Top Organic Results:**">> ELSE <<>>)

\* google_serper.py: the blocks the formatting branches add to the header
serper_sections(result_type, keys) ==
    CASE result_type = "search" ->
            (IF "knowledgeGraph" \in keys THEN <<"**Knowledge Graph:**">> ELSE <<>>)
            \o (IF "organic" \in keys THEN <<"**Top Organic Results:**">> ELSE <<>>)
      [] result_type = "news" ->
            IF "news" \in keys THEN <<"**Latest News:**">> ELSE <<>>
      [] result_type = "images" ->
            IF "images" \in keys THEN <<"**Image Results:**">> ELSE <<>>
      [] result_type = "places" ->
            IF "places" \in keys THEN <<"**Places Results:**">> ELSE <<>>
      [] OTHER -> <<>>

\* google_serper.py search_web_detailed(query, result_type)
\* prov.value = [container: whether `key in results` works, keys: its keys]
search_web_detailed(query, result_type, prov) ==
    IF ~Truthy(SERPER_API_KEY)
    THEN Did(Returned(<<"Error", ": SERPER_API_KEY not found. Please set your Serper API key in environment variables.">>),
             NoExc, <<>>)
    ELSE
      LET search_type == IF result_type \in {"search", "images", "news", "places"}
                         THEN result_type ELSE "search"
          call == [api |-> "GoogleSerperAPIWrapper.results", type |-> search_type,
                   query |-> query, key |-> SERPER_API_KEY]
          prefix == " in detailed Serper search: "
      IN IF prov.kind = "raise"
         THEN Did(except_Exception(prov.exc, prefix), prov.exc, <<call>>)
         ELSE LET results == prov.value
                  header  == <<"Detailed ", search_type, " results for '", query, "':">>
                  tests   == result_type \in {"search", "news", "images", "places"}
                  e       == Exc("TypeError", "argument is not iterable")
              IN IF tests /\ ~results.container
                 THEN Did(except_Exception(e, prefix), e, <<call>>)
                 ELSE Did(Returned(header \o serper_sections(result_type, results.keys)),
                          NoExc, <<call>>)

\* PAID_zenguard_ai.py: the keys of detector_map
detector_map == {"PROMPT_INJECTION", "SECRETS", "PII", "TOXICITY",
                 "ALLOWED_TOPICS", "BANNED_TOPICS", "KEYWORDS"}

\* PAID_zenguard_ai.py zenguard_detect(prompts, detectors, in_parallel)
\* prov.value = str(result)
zenguard_detect(prompts, detectors, in_parallel, prov) ==
    LET hint   == ": pip install langchain-community"
        prefix == " in ZenGuard AI detection: "
        bad    == {i \in DOMAIN detectors : detectors[i] \notin detector_map}
        call   == [api |-> "ZenGuardTool.run", prompts |-> prompts,
                   detectors |-> detectors, in_parallel |-> in_parallel,
                   key |-> ZENGUARD_API_KEY]
    IN IF bad # {}
       THEN LET i == CHOOSE j \in bad : \A k \in bad : j <= k
                e == Exc("KeyError", detectors[i])
            IN Did(except_ImportError(e, hint, prefix), e, <<>>)
       ELSE IF prov.kind = "raise"
       THEN Did(except_ImportError(prov.exc, hint, prefix), prov.exc, <<call>>)
       ELSE Did(Returned(<<prov.value>>), NoExc, <<call>>)

\* arxiv.py search_arxiv_papers(query)
\* prov.value = [status_code, xml: the body parses, entries: how many
\*               atom:entry, entry_ok: every entry has the texts it reads]
search_arxiv_papers(query, prov) ==
    LET prefix == " searching ArXiv: "
        call   == [api |-> "requests.get", url |-> "http://export.arxiv.org/api/query",
                   search_query |-> <<"all:", query>>, max_results |-> 3]
        papers[i \in Nat] ==
            IF i = 0 THEN <<>> ELSE papers[i - 1] \o <<"**Paper ", Str(i), ":**">>
    IN IF prov.kind = "raise"
       THEN Did(except_Exception(prov.exc, prefix), prov.exc, <<call>>)
       ELSE LET response == prov.value IN
            IF response.status_code # 200
            THEN Did(Returned(<<"Error", ": ArXiv API returned status ", Str(response.status_code)>>),
                     NoExc, <<call>>)
            ELSE IF ~response.xml
            THEN LET e == Exc("ParseError", "syntax error")
                 IN Did(except_Exception(e, prefix), e, <<call>>)
            ELSE IF response.entries = 0
            THEN Did(Returned(<<"No papers found for query: ", query>>), NoExc, <<call>>)
            ELSE IF ~response.entry_ok
            THEN LET e == Exc("AttributeError", "'NoneType' object has no attribute 'strip'")
                 IN Did(except_Exception(e, prefix), e, <<call>>)
            ELSE Did(Returned(<<"ArXiv search results for '", query, "':">>
                              \o papers[response.entries]),
                     NoExc, <<call>>)

\* apify_actor.py rag_web_browser(query, max_results)
\* prov.value = the Actor's results, as text
rag_web_browser(query, max_results, prov) ==
    IF ~Truthy(APIFY_API_TOKEN)
    THEN Did(Returned(<<"Error", ": APIFY_API_TOKEN not found. Please set your Apify API token in environment variables.">>),
             NoExc, <<>>)
    ELSE
      LET call == [api |-> "apify/rag-web-browser", query |-> query,
                   maxResults |-> Min(max_results, 10)]
      IN IF prov.kind = "raise"
         THEN Did(except_Exception(prov.exc, " using RAG Web Browser: "),
                  prov.exc, <<call>>)
         ELSE Did(Returned(<<"RAG Web Browser results for '", query, "':", prov.value>>),
                  NoExc, <<call>>)

\* PAID_you.py search_you_com(query)
\* prov.value = [list: isinstance(results, list), docs: each has metadata
\*               and page_content, text: str(results)]
search_you_com(query, prov) ==
    LET prefix == " searching You.com: "
        call   == [api |-> "YouSearchTool.invoke", query |-> query,
                   key |-> YDC_API_KEY, num_web_results |-> 5]
    IN IF prov.kind = "raise"
       THEN Did(except_Exception(prov.exc, prefix), prov.exc, <<call>>)
       ELSE LET results == prov.value IN
            IF results.list
            THEN IF results.docs
                 THEN Did(Returned(<<"Result 1:", results.text>>), NoExc, <<call>>)
                 ELSE LET e == Exc("AttributeError", "'str' object has no attribute 'metadata'")
                      IN Did(except_Exception(e, prefix), e, <<call>>)
            ELSE Did(Returned(<<results.text>>), NoExc, <<call>>)

\* writer_tools.py writer_chat_completion(prompt, model)
\* prov.value = response.content
writer_chat_completion(prompt, model, prov) ==
    LET call == [api |-> "ChatWriter.invoke", model |-> model, prompt |-> prompt,
                 key |-> WRITER_API_KEY]
    IN IF prov.kind = "raise"
       THEN Did(except_ImportError(prov.exc,
                    ": Install dependencies with: pip install langchain-writer",
                    " with Writer chat completion: "),
                prov.exc, <<call>>)
       ELSE Did(Returned(<<prov.value>>), NoExc, <<call>>)

\* PAID_google_search.py search_google_detailed(query, num_results)
\* prov.value = [n: len(results), dicts: every result has .get]
search_google_detailed(query, num_results, prov) ==
    IF ~Truthy(GOOGLE_API_KEY) \/ ~Truthy(GOOGLE_CSE_ID)
    THEN Did(Returned(<<"Error", ": GOOGLE_API_KEY and GOOGLE_CSE_ID must be set in environment variables">>),
             NoExc, <<>>)
    ELSE
      LET prefix == " in detailed Google search: "
          call == [api |-> "GoogleSearchAPIWrapper.results", query |-> query,
                   k |-> Min(num_results, 10), num_results |-> num_results]
      IN IF prov.kind = "raise"
         THEN Did(except_Exception(prov.exc, prefix), prov.exc, <<call>>)
         ELSE LET results == prov.value IN
              IF results.n = 0
              THEN Did(Returned(<<"No results found for query: ", query>>), NoExc, <<call>>)
              ELSE IF ~results.dicts
              THEN LET e == Exc("AttributeError", "'str' object has no attribute 'get'")
                   IN Did(except_Exception(e, prefix), e, <<call>>)
              ELSE Did(Returned(<<"Google Search Results for '", query, "':",
                                  "1. **", "Link: ", "Snippet: ">>),
                       NoExc, <<call>>)

\* google_scholar.py search_google_scholar(query)
\* prov.value = the text scholar.run gives
search_google_scholar(query, prov) ==
    IF ~Truthy(SERP_API_KEY)
    THEN Did(Returned(<<"Error", ": SERP_API_KEY not found. Please set your SerpAPI key in the environment variables.">>),
             NoExc, <<>>)
    ELSE
      LET call == [api |-> "GoogleScholarAPIWrapper.run", query |-> query,
                   key |-> SERP_API_KEY]
      IN IF prov.kind = "raise"
         THEN Did(except_Exception(prov.exc, " searching Google Scholar: "),
                  prov.exc, <<call>>)
         ELSE Did(Returned(<<prov.value>>), NoExc, <<call>>)

\* the text WikipediaQueryRun gives when it found nothing
NoGoodWikipedia == "No good Wikipedia Search Result was found"

\* wikipedia.py search_wikipedia(query)
\* prov.value = the text wikipedia_tool.run gives
search_wikipedia(query, prov) ==
    LET call == [api |-> "WikipediaQueryRun.run", query |-> query,
                 top_k_results |-> 2, doc_content_chars_max |-> 4000]
    IN IF prov.kind = "raise"
       THEN Did(except_Exception(prov.exc, " searching Wikipedia: "),
                prov.exc, <<call>>)
       ELSE LET result == prov.value IN
            IF result = "" \/ result = NoGoodWikipedia
            THEN Did(Returned(<<"No Wikipedia articles found for '", query,
                                "'. Please try a different search term.">>),
                     NoExc, <<call>>)
            ELSE Did(Returned(<<result>>), NoExc, <<call>>)

----------------------------------------------------------------------------
(* The other tool wrappers the mains hand to their agent *)

GoogleCredentialsMissing ==
    <<"Error", ": GOOGLE_API_KEY and GOOGLE_CSE_ID must be set in environment variables">>

\* PAID_google_search.py search_google(query); prov.value = search.run's text
search_google(query, prov) ==
    IF ~Truthy(GOOGLE_API_KEY) \/ ~Truthy(GOOGLE_CSE_ID)
    THEN Did(Returned(GoogleCredentialsMissing), NoExc, <<>>)
    ELSE
      LET call == [api |-> "GoogleSearchAPIWrapper.run", query |-> query]
      IN IF prov.kind = "raise"
         THEN Did(except_Exception(prov.exc, " searching Google: "), prov.exc, <<call>>)
         ELSE Did(Returned(<<prov.value>>), NoExc, <<call>>)

\* PAID_google_search.py quick_google_search(query)
quick_google_search(query, prov) ==
    IF ~Truthy(GOOGLE_API_KEY) \/ ~Truthy(GOOGLE_CSE_ID)
    THEN Did(Returned(GoogleCredentialsMissing), NoExc, <<>>)
    ELSE
      LET call == [api |-> "GoogleSearchAPIWrapper.run", query |-> query, k |-> 1]
      IN IF prov.kind = "raise"
         THEN Did(except_Exception(prov.exc, " in quick Google search: "),
                  prov.exc, <<call>>)
         ELSE Did(Returned(<<"Top result for '", query, "':", prov.value>>),
                  NoExc, <<call>>)

\* arxiv.py get_paper_details(arxiv_id); prov.value as for search_arxiv_papers
get_paper_details(arxiv_id, prov) ==
    LET rest == " retrieving paper details: "
        call == [api |-> "requests.get", url |-> "http://export.arxiv.org/api/query",
                 id_list |-> arxiv_id, max_results |-> 1]
    IN IF prov.kind = "raise"
       THEN Did(except_Exception(prov.exc, rest), prov.exc, <<call>>)
       ELSE LET response == prov.value IN
            IF response.status_code # 200
            THEN Did(Returned(<<"Error", ": ArXiv API returned status ", Str(response.status_code)>>),
                     NoExc, <<call>>)
            ELSE IF ~response.xml
            THEN LET e == Exc("ParseError", "syntax error")
                 IN Did(except_Exception(e, rest), e, <<call>>)
            ELSE IF response.entries = 0
            THEN Did(Returned(<<"No paper found with ArXiv ID: ", arxiv_id>>), NoExc, <<call>>)
            ELSE IF ~response.entry_ok
            THEN LET e == Exc("AttributeError", "'NoneType' object has no attribute 'strip'")
                 IN Did(except_Exception(e, rest), e, <<call>>)
            ELSE Did(Returned(<<"**Paper Details for ArXiv ID: ", arxiv_id, "**">>),
                     NoExc, <<call>>)

\* arxiv.py research_arxiv_topic(topic, max_papers)
research_arxiv_topic(topic, max_papers, prov) ==
    LET rest == " conducting topic research: "
        call == [api |-> "requests.get", url |-> "http://export.arxiv.org/api/query",
                 search_query |-> <<"all:", topic>>,
                 max_results |-> Min(Max(max_papers, 1), 10)]
        papers[i \in Nat] ==
            IF i = 0 THEN <<>> ELSE papers[i - 1] \o <<"**Paper ", Str(i), ":**">>
    IN IF prov.kind = "raise"
       THEN Did(except_Exception(prov.exc, rest), prov.exc, <<call>>)
       ELSE LET response == prov.value IN
            IF response.status_code # 200
            THEN Did(Returned(<<"Error", ": ArXiv API returned status ", Str(response.status_code)>>),
                     NoExc, <<call>>)
            ELSE IF ~response.xml
            THEN LET e == Exc("ParseError", "syntax error")
                 IN Did(except_Exception(e, rest), e, <<call>>)
            ELSE IF response.entries = 0
            THEN Did(Returned(<<"No papers found for topic: ", topic>>), NoExc, <<call>>)
            ELSE IF ~response.entry_ok
            THEN LET e == Exc("AttributeError", "'NoneType' object has no attribute 'strip'")
                 IN Did(except_Exception(e, rest), e, <<call>>)
            ELSE Did(Returned(<<"**Research Summary: ", topic, "**">>
                              \o papers[response.entries]),
                     NoExc, <<call>>)

\* wolfram_alpha.py wolfram_alpha_query(query); prov.value = wolfram.run's text
wolfram_alpha_query(query, prov) ==
    LET call == [api |-> "WolframAlphaAPIWrapper.run", query |-> query,
                 key |-> WOLFRAM_ALPHA_APPID]
    IN IF prov.kind = "raise"
       THEN Did(except_Exception(prov.exc, " querying Wolfram Alpha: "),
                prov.exc, <<call>>)
       ELSE IF prov.value = ""
       THEN Did(Returned(<<"Wolfram Alpha could not compute an answer for: '", query,
                           "'. Please try rephrasing your question.">>),
                NoExc, <<call>>)
       ELSE Did(Returned(<<prov.value>>), NoExc, <<call>>)

\* a search_knowledge_graph that answers from what happened before
knowledge_graph_remembering(query, graph_id, prov) ==
    IF attempts # <<>>
    THEN Did(Returned(<<"Error", ": the knowledge graph was asked before">>), NoExc, <<>>)
    ELSE Did(Returned(<<prov.value>>), NoExc,
             <<[api |-> "GraphTool.invoke", query |-> query, graph_ids |-> <<graph_id>>]>>)

\* an os.getenv that hands out a demonstration value for an unset variable
getenv_or_demo(name) == IF environ[name] = None THEN "key" ELSE environ[name]

\* os.getenv(name) as the tools call it when they run
getenv(name) == environ[name]

\* writer_tools.py search_knowledge_graph(query, graph_id)
search_knowledge_graph(query, graph_id, prov) ==
    LET id == IF ~Truthy(graph_id) THEN getenv("WRITER_GRAPH_ID") ELSE graph_id
    IN IF ~Truthy(id)
       THEN Did(Returned(<<"Error", ": No graph ID provided. Set WRITER_GRAPH_ID environment variable.">>),
                NoExc, <<>>)
       ELSE
         LET call == [api |-> "GraphTool.invoke", query |-> query, graph_ids |-> <<id>>]
         IN IF prov.kind = "raise"
            THEN Did(except_Exception(prov.exc, " searching knowledge graph: "),
                     prov.exc, <<call>>)
            ELSE Did(Returned(<<prov.value>>), NoExc, <<call>>)

\* writer_tools.py use_nocode_app(query, app_id)
use_nocode_app(query, app_id, prov) ==
    LET id == IF ~Truthy(app_id) THEN getenv("WRITER_APP_ID") ELSE app_id
    IN IF ~Truthy(id)
       THEN Did(Returned(<<"Error", ": No app ID provided. Set WRITER_APP_ID environment variable.">>),
                NoExc, <<>>)
       ELSE
         LET call == [api |-> "NoCodeAppTool.run", query |-> query, app_id |-> id]
         IN IF prov.kind = "raise"
            THEN Did(except_ImportError(prov.exc,
                         ": Install dependencies with: pip install langchain-writer",
                         " using no-code app: "),
                     prov.exc, <<call>>)
            ELSE Did(Returned(<<prov.value>>), NoExc, <<call>>)

----------------------------------------------------------------------------
\* google_serper.py search_web(query); prov.value = the text search.run gives
search_web(query, prov) ==
    IF ~Truthy(SERPER_API_KEY)
    THEN Did(Returned(<<"Error", ": SERPER_API_KEY not found. Please set your Serper API key in environment variables.">>),
             NoExc, <<>>)
    ELSE
      LET call == [api |-> "GoogleSerperAPIWrapper.run", query |-> query,
                   key |-> SERPER_API_KEY]
      IN IF prov.kind = "raise"
         THEN Did(except_Exception(prov.exc, " searching with Serper: "),
                  prov.exc, <<call>>)
         ELSE Did(Returned(<<"Search results for '", query, "':", prov.value>>),
                  NoExc, <<call>>)

\* str.title() on the one-word topics the callers pass
title_word(w) == CASE w = "q" -> "Q" [] OTHER -> w

\* the text quick_news_brief's `for line in lines` loop appends; a line is
\* given by what it starts with, doc_count is the stories counted so far
RECURSIVE brief_lines(_, _)
brief_lines(lines, doc_count) ==
    IF lines = <<>> THEN <<>>
    ELSE LET line == Head(lines) IN
         CASE line = "<doc>" ->
                <<"**Story ", Str(doc_count + 1), ":**">>
                    \o brief_lines(Tail(lines), doc_count + 1)
           [] line = "title:" ->
                <<"headline">> \o brief_lines(Tail(lines), doc_count)
           [] line = "summary:" ->
                <<"summary">> \o brief_lines(Tail(lines), doc_count)
           [] line = "source:" ->
                <<"Source: ", "source">> \o brief_lines(Tail(lines), doc_count)
           [] OTHER -> brief_lines(Tail(lines), doc_count)

\* a quick_news_brief whose body is not inside try/except
brief_without_try(topic, prov) ==
    LET call == [api |-> "AskNewsSearch.invoke", max_results |-> 3,
                 query |-> <<"latest ", topic, " news brief">>]
    IN IF prov.kind = "raise" THEN Did(Raised(prov.exc), prov.exc, <<call>>)
       ELSE IF ~prov.value.is_str
       THEN Did(Raised(Exc("AttributeError", "'NoneType' object has no attribute 'split'")),
                Exc("AttributeError", "'NoneType' object has no attribute 'split'"),
                <<call>>)
       ELSE Did(Returned(brief_lines(prov.value.lines, 0)), NoExc, <<call>>)

\* ask_news.py quick_news_brief(topic)
\* prov.value = [is_str |-> whether tool.invoke gave text, lines |-> what
\* each line of that text starts with]
quick_news_brief(topic, prov) ==
    IF ~Truthy(ASKNEWS_CLIENT_ID) \/ ~Truthy(ASKNEWS_CLIENT_SECRET)
    THEN Did(Returned(<<"Error", ": ASKNEWS_CLIENT_ID and ASKNEWS_CLIENT_SECRET must be set in environment variables">>),
             NoExc, <<>>)
    ELSE
      LET call == [api |-> "AskNewsSearch.invoke", max_results |-> 3,
                   query |-> <<"latest ", topic, " news brief">>]
          prefix == " creating news brief: "
      IN IF prov.kind = "raise"
         THEN Did(except_Exception(prov.exc, prefix), prov.exc, <<call>>)
         ELSE IF ~prov.value.is_str
         THEN LET e == Exc("AttributeError", "'NoneType' object has no attribute 'split'")
              IN Did(except_Exception(e, prefix), e, <<call>>)
         ELSE Did(Returned(<<"**News Brief: ", title_word(topic), "**">>
                               \o brief_lines(prov.value.lines, 0)),
                  NoExc, <<call>>)

\* vectara.py vectara_rag_search(query)
\* prov.value = what vectara_rag_tool.run gives: [json |-> what json.loads
\* makes of it ("dict", "list", "invalid", or "not_str" for a value that is
\* no text), fcs |-> whether the dict has a factual_consistency_score]
vectara_rag_search(query, prov) ==
    LET call == [api |-> "VectaraRAG.run", query |-> query,
                 key |-> VECTARA_API_KEY, corpus_key |-> VECTARA_CORPUS_KEY]
        hint == ": Install dependencies with: pip install langchain-vectara"
        rest == " with Vectara RAG: "
    IN IF prov.kind = "raise"
       THEN Did(except_ImportError(prov.exc, hint, rest), prov.exc, <<call>>)
       ELSE CASE prov.value.json = "dict" ->
                   Did(Returned(<<"**Answer:** ", "summary">> \o
                                (IF prov.value.fcs
                                 THEN <<"**Factual Consistency Score:** ", "0.9">>
                                 ELSE <<>>)),
                       NoExc, <<call>>)
              [] prov.value.json = "list" ->
                   LET e == Exc("AttributeError", "'list' object has no attribute 'get'")
                   IN Did(except_ImportError(e, hint, rest), e, <<call>>)
              [] OTHER ->
                   \* json.JSONDecodeError or TypeError, caught by the inner handler
                   Did(Returned(<<"**Answer:** ", "result">>), NoExc, <<call>>)

\* an extraction that sends the prompt along with the query
extract_sending_both(url, prompt, query, timeout, prov) ==
    LET params == [url |-> url,
                   query |-> IF query # "" THEN query ELSE None,
                   prompt |-> IF prompt # "" THEN prompt ELSE None]
    IN Did(Returned(<<"AgentQL Extraction Results for '", url, "':", "payload">>), NoExc,
           <<[api |-> "ExtractWebDataTool.invoke", params |-> params,
              timeout |-> timeout, key |-> AGENTQL_API_KEY]>>)

\* agentQL.py agentql_extract_web_data(url, prompt, query, ..., timeout)
\* prov.value = the text tool.invoke gives
agentql_extract_web_data(url, prompt, query, timeout, prov) ==
    LET \* a key that is not put into params is None here
        params == [url |-> url,
                   query |-> IF query # "" THEN query ELSE None,
                   prompt |-> IF query = "" /\ prompt # "" THEN prompt ELSE None]
        call == [api |-> "ExtractWebDataTool.invoke", params |-> params,
                 timeout |-> timeout, key |-> AGENTQL_API_KEY]
    IN IF prov.kind = "raise"
       THEN Did(except_Exception(prov.exc, " extracting web data: "),
                prov.exc, <<call>>)
       ELSE Did(Returned(<<"AgentQL Extraction Results for '", url, "':", prov.value>>),
                NoExc, <<call>>)

(* Inputs *)

Queries       == {"q"}
ProviderTexts == {"", "payload", NoGoodWikipedia}
NumArgs       == {-1, 0, 1, 10, 11, 500}
ResultTypes   == {"search", "news", "images", "places", "videos"}
DetectorLists == {<<"PII">>, <<"PII", "TOXICITY">>, <<"BOGUS">>, <<>>}

TextOutcomes == ProvRaises \cup {ProvReturn(t) : t \in ProviderTexts}

SerperOutcomes ==
    ProvRaises \cup
    {ProvReturn([container |-> c, keys |-> k]) :
        c \in BOOLEAN,
        k \in {{}, {"organic"}, {"knowledgeGraph", "organic"}, {"news"},
               {"images"}, {"places"}}}

ArxivOutcomes ==
    ProvRaises \cup
    {ProvReturn([status_code |-> sc, xml |-> x, entries |-> n, entry_ok |-> ok]) :
        sc \in {200, 500}, x \in BOOLEAN, n \in {0, 2}, ok \in BOOLEAN}

YouOutcomes ==
    ProvRaises \cup
    {ProvReturn([list |-> l, docs |-> d, text |-> "payload"]) :
        l \in BOOLEAN, d \in BOOLEAN}

GoogleOutcomes ==
    ProvRaises \cup
    {ProvReturn([n |-> n, dicts |-> d]) : n \in {0, 2}, d \in BOOLEAN}

NewsOutcomes ==
    ProvRaises \cup
    {ProvReturn([is_str |-> b, lines |-> l]) :
        b \in BOOLEAN,
        l \in {<<>>, <<"published:">>,
               <<"<doc>", "title:", "summary:", "source:", "<doc>", "title:">>}}

VectaraOutcomes ==
    ProvRaises \cup
    {ProvReturn([json |-> j, fcs |-> f]) :
        j \in {"dict", "list", "invalid", "not_str"}, f \in BOOLEAN}

\* the seconds a caller passes as `timeout`
Timeouts == {1, 120}

NoCall == [tool |-> "none", args |-> <<>>]

----------------------------------------------------------------------------
(* SpecTools: a process that has imported one script and calls its tool    *)
(* functions directly, as the agent framework or any importer may.         *)

ToolScripts == {"google_serper", "PAID_zenguard_ai", "arxiv", "apify_actor",
                "PAID_you", "writer_tools", "PAID_google_search",
                "google_scholar", "wikipedia", "wolfram_alpha",
                "ask_news", "vectara", "agentQL"}

InitTools ==
    /\ script \in ToolScripts
    /\ environ \in Environments(script)
    /\ absent = {}
    /\ pc = "tools"
    /\ typed = [at |-> "none", entries |-> <<>>]
    /\ request = [request |-> <<>>, params |-> [search_type |-> "none"]]
    /\ kickoffs = 0 /\ attempts = <<>> /\ out = <<>> /\ uncaught = NoExc
    /\ tool_call = NoCall /\ tool_ret = NoRet /\ inner = NoExc /\ outbound = <<>>
    /\ term_list = <<>> /\ idx = 0 /\ comparison_results = <<>>

\* the invocations a caller can make of a tool: arguments, and what the
\* invocation does under each thing its provider call can do
ToolRuns(tool) ==
    CASE tool = "search_web_detailed" ->
            {[args |-> <<q, rt>>, did |-> search_web_detailed(q, rt, prov)] :
                q \in Queries, rt \in ResultTypes, prov \in SerperOutcomes}
      [] tool = "zenguard_detect" ->
            {[args |-> <<ds>>, did |-> zenguard_detect(<<"p">>, ds, par, prov)] :
                ds \in DetectorLists, par \in BOOLEAN, prov \in TextOutcomes}
      [] tool = "search_arxiv_papers" ->
            {[args |-> <<q>>, did |-> search_arxiv_papers(q, prov)] :
                q \in Queries, prov \in ArxivOutcomes}
      [] tool = "get_paper_details" ->
            {[args |-> <<q>>, did |-> get_paper_details(q, prov)] :
                q \in Queries, prov \in ArxivOutcomes}
      [] tool = "research_arxiv_topic" ->
            {[args |-> <<n>>, did |-> research_arxiv_topic(q, n, prov)] :
                q \in Queries, n \in NumArgs, prov \in ArxivOutcomes}
      [] tool = "rag_web_browser" ->
            {[args |-> <<n>>, did |-> rag_web_browser(q, n, prov)] :
                q \in Queries, n \in NumArgs, prov \in TextOutcomes}
      [] tool = "search_you_com" ->
            {[args |-> <<q>>, did |-> search_you_com(q, prov)] :
                q \in Queries, prov \in YouOutcomes}
      [] tool = "search_knowledge_graph" ->
            {[args |-> <<q, g>>, did |-> search_knowledge_graph(q, g, prov)] :
                q \in Queries, g \in CredValues, prov \in TextOutcomes}
      [] tool = "writer_chat_completion" ->
            {[args |-> <<q>>, did |-> writer_chat_completion(q, "palmyra-x5", prov)] :
                q \in Queries, prov \in TextOutcomes}
      [] tool = "use_nocode_app" ->
            {[args |-> <<q, a>>, did |-> use_nocode_app(q, a, prov)] :
                q \in Queries, a \in CredValues, prov \in TextOutcomes}
      [] tool = "search_google" ->
            {[args |-> <<q>>, did |-> search_google(q, prov)] :
                q \in Queries, prov \in TextOutcomes}
      [] tool = "search_google_detailed" ->
            {[args |-> <<n>>, did |-> search_google_detailed(q, n, prov)] :
                q \in Queries, n \in NumArgs, prov \in GoogleOutcomes}
      [] tool = "quick_google_search" ->
            {[args |-> <<q>>, did |-> quick_google_search(q, prov)] :
                q \in Queries, prov \in TextOutcomes}
      [] tool = "search_google_scholar" ->
            {[args |-> <<q>>, did |-> search_google_scholar(q, prov)] :
                q \in Queries, prov \in TextOutcomes}
      [] tool = "search_wikipedia" ->
            {[args |-> <<q>>, did |-> search_wikipedia(q, prov)] :
                q \in Queries, prov \in TextOutcomes}
      [] tool = "wolfram_alpha_query" ->
            {[args |-> <<q>>, did |-> wolfram_alpha_query(q, prov)] :
                q \in Queries, prov \in TextOutcomes}
      [] tool = "search_web" ->
            {[args |-> <<q>>, did |-> search_web(q, prov)] :
                q \in Queries, prov \in TextOutcomes}
      [] tool = "quick_news_brief" ->
            {[args |-> <<q>>, did |-> quick_news_brief(q, prov)] :
                q \in Queries, prov \in NewsOutcomes}
      [] tool = "vectara_rag_search" ->
            {[args |-> <<q>>, did |-> vectara_rag_search(q, prov)] :
                q \in Queries, prov \in VectaraOutcomes}
      [] tool = "agentql_extract_web_data" ->
            {[args |-> <<"url", p, q, t>>,
              did |-> agentql_extract_web_data("url", p, q, t, prov)] :
                p \in {"", "p"}, q \in {"", "q"}, t \in Timeouts,
                prov \in TextOutcomes}

\* the script that defines each tool
ScriptOf(tool) ==
    CASE tool \in {"search_google", "search_google_detailed", "quick_google_search"}
            -> "PAID_google_search"
      [] tool \in {"search_arxiv_papers", "get_paper_details", "research_arxiv_topic"}
            -> "arxiv"
      [] tool \in {"search_knowledge_graph", "writer_chat_completion", "use_nocode_app"}
            -> "writer_tools"
      [] tool \in {"search_web_detailed", "search_web"} -> "google_serper"
      [] tool = "quick_news_brief"      -> "ask_news"
      [] tool = "vectara_rag_search"    -> "vectara"
      [] tool = "agentql_extract_web_data" -> "agentQL"
      [] tool = "zenguard_detect"       -> "PAID_zenguard_ai"
      [] tool = "rag_web_browser"       -> "apify_actor"
      [] tool = "search_you_com"        -> "PAID_you"
      [] tool = "search_google_scholar" -> "google_scholar"
      [] tool = "search_wikipedia"      -> "wikipedia"
      [] tool = "wolfram_alpha_query"   -> "wolfram_alpha"

\* one invocation of a tool function, start to finish
Invoke(tool) ==
    /\ pc = "tools"
    /\ \E r \in ToolRuns(tool) :
          /\ tool_call' = [tool |-> tool, args |-> r.args]
          /\ tool_ret' = r.did.ret
          /\ inner' = r.did.inner
          /\ outbound' = r.did.calls
    /\ UNCHANGED <<script, environ, absent, pc, mainVars, trendVars>>

call_search_web_detailed ==
    /\ script = ScriptOf("search_web_detailed")
    /\ Invoke("search_web_detailed")

call_zenguard_detect ==
    /\ script = ScriptOf("zenguard_detect")
    /\ Invoke("zenguard_detect")

call_search_arxiv_papers ==
    /\ script = ScriptOf("search_arxiv_papers")
    /\ Invoke("search_arxiv_papers")

call_get_paper_details ==
    /\ script = ScriptOf("get_paper_details")
    /\ Invoke("get_paper_details")

call_research_arxiv_topic ==
    /\ script = ScriptOf("research_arxiv_topic")
    /\ Invoke("research_arxiv_topic")

call_rag_web_browser ==
    /\ script = ScriptOf("rag_web_browser")
    /\ Invoke("rag_web_browser")

call_search_you_com ==
    /\ script = ScriptOf("search_you_com")
    /\ Invoke("search_you_com")

call_search_knowledge_graph ==
    /\ script = ScriptOf("search_knowledge_graph")
    /\ Invoke("search_knowledge_graph")

call_writer_chat_completion ==
    /\ script = ScriptOf("writer_chat_completion")
    /\ Invoke("writer_chat_completion")

call_use_nocode_app ==
    /\ script = ScriptOf("use_nocode_app")
    /\ Invoke("use_nocode_app")

call_search_google ==
    /\ script = ScriptOf("search_google")
    /\ Invoke("search_google")

call_search_google_detailed ==
    /\ script = ScriptOf("search_google_detailed")
    /\ Invoke("search_google_detailed")

call_quick_google_search ==
    /\ script = ScriptOf("quick_google_search")
    /\ Invoke("quick_google_search")

call_search_google_scholar ==
    /\ script = ScriptOf("search_google_scholar")
    /\ Invoke("search_google_scholar")

call_search_wikipedia ==
    /\ script = ScriptOf("search_wikipedia")
    /\ Invoke("search_wikipedia")

call_wolfram_alpha_query ==
    /\ script = ScriptOf("wolfram_alpha_query")
    /\ Invoke("wolfram_alpha_query")

call_search_web ==
    /\ script = ScriptOf("search_web")
    /\ Invoke("search_web")

call_quick_news_brief ==
    /\ script = ScriptOf("quick_news_brief")
    /\ Invoke("quick_news_brief")

call_vectara_rag_search ==
    /\ script = ScriptOf("vectara_rag_search")
    /\ Invoke("vectara_rag_search")

call_agentql_extract_web_data ==
    /\ script = ScriptOf("agentql_extract_web_data")
    /\ Invoke("agentql_extract_web_data")

NextTools ==
    \/ call_search_web_detailed
    \/ call_zenguard_detect
    \/ call_search_arxiv_papers
    \/ call_get_paper_details
    \/ call_research_arxiv_topic
    \/ call_rag_web_browser
    \/ call_search_you_com
    \/ call_search_knowledge_graph
    \/ call_writer_chat_completion
    \/ call_use_nocode_app
    \/ call_search_google
    \/ call_search_google_detailed
    \/ call_quick_google_search
    \/ call_search_google_scholar
    \/ call_search_wikipedia
    \/ call_wolfram_alpha_query
    \/ call_search_web
    \/ call_quick_news_brief
    \/ call_vectara_rag_search
    \/ call_agentql_extract_web_data

SpecTools == InitTools /\ [][NextTools]_vars

----------------------------------------------------------------------------
(* Keyboard entries: str.strip, str.lower, int()                           *)

\* s[a..b] as a sequence
Slice(s, a, b) == [i \in 1..(b - a + 1) |-> s[a + i - 1]]

\* str.strip(): without its leading and trailing blanks
strip(s) ==
    LET solid == {i \in DOMAIN s : s[i] # " "}
    IN IF solid = {} THEN <<>>
       ELSE Slice(s, CHOOSE i \in solid : \A j \in solid : i <= j,
                     CHOOSE i \in solid : \A j \in solid : i >= j)

\* str.lower() on the letters the entries use
lower(s) ==
    [i \in DOMAIN s |->
        CASE s[i] = "Q" -> "q" [] s[i] = "U" -> "u" [] s[i] = "I" -> "i"
          [] s[i] = "T" -> "t" [] s[i] = "E" -> "e" [] s[i] = "X" -> "x"
          [] s[i] = "Y" -> "y" [] s[i] = "N" -> "n"
          [] s[i] = "R" -> "r" [] s[i] = "A" -> "a" [] s[i] = "L" -> "l"
          [] s[i] = "S" -> "s" [] s[i] = "F" -> "f"
          [] OTHER -> s[i]]

Digits == {"0", "1", "2", "3", "4", "5", "6", "7", "8", "9"}

DigitVal(c) ==
    CASE c = "0" -> 0 [] c = "1" -> 1 [] c = "2" -> 2 [] c = "3" -> 3
      [] c = "4" -> 4 [] c = "5" -> 5 [] c = "6" -> 6 [] c = "7" -> 7
      [] c = "8" -> 8 [] c = "9" -> 9

\* the value of a non-empty run of digits
RECURSIVE DecimalVal(_)
DecimalVal(ds) ==
    IF ds = <<>> THEN 0
    ELSE 10 * DecimalVal(Slice(ds, 1, Len(ds) - 1)) + DigitVal(ds[Len(ds)])

\* int(s): blanks around, an optional sign, then digits; else ValueError
int(s) ==
    LET t      == strip(s)
        signed == t # <<>> /\ t[1] \in {"-", "+"}
        ds     == IF signed THEN Slice(t, 2, Len(t)) ELSE t
    IN IF ds # <<>> /\ \A i \in DOMAIN ds : ds[i] \in Digits
       THEN [ok |-> TRUE,
             val |-> IF signed /\ t[1] = "-" THEN 0 - DecimalVal(ds) ELSE DecimalVal(ds)]
       ELSE [ok |-> FALSE, val |-> 0]

\* `entry or default` on text
OrDefault(entry, default) == IF entry = <<>> THEN default ELSE entry

\* what is typed at a prompt for a number
NumEntries == {<<>>, <<" ">>, <<"5">>, <<"1">>, <<"2">>, <<"3">>, <<"4">>, <<"0">>,
               <<"1", "0">>, <<"1", "1">>, <<"5", "0", "0">>, <<"-", "1">>,
               <<" ", "7", " ">>, <<"x">>, <<"5", "x">>, <<"-">>}

\* what is typed at a menu's choice prompt, at a query prompt, and at a
\* loop main's prompt
ChoiceEntries == {<<"1">>, <<"2">>, <<"3">>, <<"4">>, <<" ", "1", " ">>,
                  <<"5">>, <<"x">>, <<>>}

QueryEntries == {<<>>, <<"q">>, <<" ", "q", " ">>}

PromptEntries == {<<>>, <<" ">>, <<"q">>, <<"e", "x", "i", "t">>,
                  <<"Q", "u", "i", "t">>, <<" ", "t", " ">>}

----------------------------------------------------------------------------
(* What a direct tool invocation guarantees (SpecTools) *)

\* the wrappers whose first handler is `except ImportError`
ImportHintTools == {"zenguard_detect", "writer_chat_completion", "use_nocode_app",
                    "vectara_rag_search"}

called == tool_call.tool # "none"

\* the invocation returned text that starts with "Error"
ReturnedError == tool_ret.kind = "return" /\ tool_ret.value # <<>>
                 /\ tool_ret.value[1] = "Error"

required_credentials(tool) ==
    CASE tool \in {"search_google", "search_google_detailed", "quick_google_search"}
            -> {"GOOGLE_API_KEY", "GOOGLE_CSE_ID"}
      [] tool = "search_web_detailed"    -> {"SERPER_API_KEY"}
      [] tool = "zenguard_detect"        -> {"ZENGUARD_API_KEY"}
      [] tool = "rag_web_browser"        -> {"APIFY_API_TOKEN"}
      [] tool = "search_you_com"         -> {"YDC_API_KEY"}
      [] tool = "writer_chat_completion" -> {"WRITER_API_KEY"}
      [] tool = "search_google_scholar"  -> {"SERP_API_KEY"}
      [] tool = "wolfram_alpha_query"    -> {"WOLFRAM_ALPHA_APPID"}
      [] tool = "search_web"             -> {"SERPER_API_KEY"}
      [] tool = "quick_news_brief"       -> {"ASKNEWS_CLIENT_ID", "ASKNEWS_CLIENT_SECRET"}
      [] tool = "vectara_rag_search"     -> {"VECTARA_API_KEY", "VECTARA_CORPUS_KEY"}
      [] tool = "agentql_extract_web_data" -> {"AGENTQL_API_KEY"}
      [] OTHER -> {}

\* C2: when a credential the tool's provider requires is unset or empty, the
\* tool makes no provider call and returns a failure text.
C2_ProviderOnlyWithCredentials ==
    (called /\ \E c \in required_credentials(tool_call.tool) : ~Truthy(environ[c]))
        => (outbound = <<>> /\ ReturnedError)

\* the range the docstrings give for num_results / max_results / max_papers
DocumentedMin == 1
DocumentedMax == 10

\* the numeric parameters the last invocation handed to its provider
sent_numbers ==
    CASE tool_call.tool = "search_google_detailed" ->
            UNION {{outbound[i].k, outbound[i].num_results} : i \in DOMAIN outbound}
      [] tool_call.tool = "rag_web_browser" ->
            {outbound[i].maxResults : i \in DOMAIN outbound}
      [] tool_call.tool = "research_arxiv_topic" ->
            {outbound[i].max_results : i \in DOMAIN outbound}
      [] OTHER -> {}

\* C5: a numeric parameter handed to a provider lies within its documented
\* range, whatever number the caller gave.
C5_NumericParamsWithinRange ==
    called => \A n \in sent_numbers : DocumentedMin <= n /\ n <= DocumentedMax

----------------------------------------------------------------------------
(* The mains: credential checks, prompts, one crew run per request.        *)
(* Printed text leaves out the pictographs.                                *)

\* one print of main: what kind of output it is, and its text
Block(kind, text) == [kind |-> kind, text |-> text]

\* what get_user_input returns: the request text and its parameters
Request(text, params) == [request |-> text, params |-> params]
NoRequest == Request(<<>>, [search_type |-> "none"])

\* the entries typed at a handler's prompts
Typed(at, entries) == [at |-> at, entries |-> entries]
NoTyped == Typed("none", <<>>)

\* a credential check that looks at GEMINI_API_KEY only
credentials_gemini_only ==
    IF ~Truthy(GEMINI_API_KEY)
    THEN <<Block("missing_credentials",
                 <<"Please set your GEMINI_API_KEY environment variable">>)>>
    ELSE <<>>

\* PAID_google_search.py main: the credential checks; what they print
PAID_google_search_credentials ==
    IF ~Truthy(GEMINI_API_KEY)
    THEN <<Block("missing_credentials",
                 <<"Please set your GEMINI_API_KEY environment variable">>)>>
    ELSE IF ~Truthy(GOOGLE_API_KEY) \/ ~Truthy(GOOGLE_CSE_ID)
    THEN <<Block("missing_credentials",
                 <<"Please set your Google Search API credentials:",
                   "   1. GOOGLE_API_KEY: Get from Google Cloud Console",
                   "   2. GOOGLE_CSE_ID: Get from Programmable Search Engine",
                   "   3. Add both to your .env file">>)>>
    ELSE <<>>

\* arxiv.py main: the credential check
arxiv_credentials ==
    IF ~Truthy(GEMINI_API_KEY)
    THEN <<Block("missing_credentials",
                 <<"Please set your GEMINI_API_KEY environment variable">>)>>
    ELSE <<>>

\* checks that test `is None` where the script tests `not`
check_is_None ==
    IF GEMINI_API_KEY = None \/ WOLFRAM_ALPHA_APPID = None
    THEN <<Block("missing_credentials", <<"Missing environment variables:">>)>>
    ELSE <<>>

\* wolfram_alpha.py check_requirements: what it prints; <<>> when it
\* returns True
wolfram_alpha_check_requirements ==
    LET missing ==
            (IF ~Truthy(GEMINI_API_KEY) THEN <<"GEMINI_API_KEY">> ELSE <<>>)
            \o (IF ~Truthy(WOLFRAM_ALPHA_APPID) THEN <<"WOLFRAM_ALPHA_APPID">> ELSE <<>>)
        missing_deps ==
            IF "wolframalpha" \in absent THEN <<"wolframalpha">> ELSE <<>>
    IN IF missing # <<>>
       THEN <<Block("missing_credentials",
                    <<"Missing environment variables:">> \o missing
                    \o (IF "WOLFRAM_ALPHA_APPID" \in Range(missing)
                        THEN <<"Get your Wolfram Alpha APP ID from:">> ELSE <<>>)
                    \o <<"Create a .env file with these variables.">>)>>
       ELSE IF missing_deps # <<>>
       THEN <<Block("missing_dependency",
                    <<"Missing dependencies:">> \o missing_deps
                    \o <<"Install with: pip install wolframalpha langchain-community">>)>>
       ELSE <<>>

\* writer_tools.py check_requirements (langchain_writer is imported at the
\* top of the module, so its import here cannot fail)
writer_tools_check_requirements ==
    LET missing ==
            (IF ~Truthy(GEMINI_API_KEY) THEN <<"GEMINI_API_KEY">> ELSE <<>>)
            \o (IF ~Truthy(WRITER_API_KEY) THEN <<"WRITER_API_KEY">> ELSE <<>>)
    IN IF missing # <<>>
       THEN <<Block("missing_credentials",
                    <<"Missing environment variables:">> \o missing
                    \o (IF "WRITER_API_KEY" \in Range(missing)
                        THEN <<"Get your Writer API key from: https://writer.com/">>
                        ELSE <<>>)
                    \o <<"Create a .env file with these variables.">>)>>
       ELSE <<>>

\* wikipedia.py check_requirements
wikipedia_check_requirements ==
    IF ~Truthy(GEMINI_API_KEY)
    THEN <<Block("missing_credentials",
                 <<"Missing GEMINI_API_KEY environment variable",
                   "Create a .env file with: GEMINI_API_KEY=your_api_key_here">>)>>
    ELSE IF "wikipedia" \in absent
    THEN <<Block("missing_dependency",
                 <<"Missing dependency: wikipedia",
                   "Install with: pip install wikipedia">>)>>
    ELSE <<>>

\* what the checks at the head of a script's main print
requirements(s) ==
    CASE s = "PAID_google_search" -> PAID_google_search_credentials
      [] s = "arxiv"              -> arxiv_credentials
      [] s = "wolfram_alpha"      -> wolfram_alpha_check_requirements
      [] s = "writer_tools"       -> writer_tools_check_requirements
      [] s = "wikipedia"          -> wikipedia_check_requirements

\* the packages a script imports only inside check_requirements
OptionalPackages(s) ==
    CASE s = "wolfram_alpha" -> {"wolframalpha"}
      [] s = "wikipedia"     -> {"wikipedia"}
      [] OTHER               -> {}

\* `min(max(n, 1), 10)` on int(entry or "5"); 5 on ValueError
asked_number(entry) ==
    LET n == int(OrDefault(strip(entry), <<"5">>))
    IN IF n.ok THEN Min(Max(n.val, 1), 10) ELSE 5

\* a get_user_input that answers with its default request whatever is typed
default_request_only(choice_entry, query_entry, num_entry) ==
    Request(<<"Search for: ", "latest technology news">>,
            [query |-> <<"latest technology news">>, search_type |-> "general"])

\* PAID_google_search.py get_user_input, given what is typed at its prompts
PAID_google_search_get_user_input(choice_entry, query_entry, num_entry) ==
    LET choice == strip(choice_entry)
        query  == strip(query_entry)
    IN CASE choice = <<"1">> ->
              Request(<<"Perform a general web search for: ">> \o query,
                      [query |-> query, search_type |-> "general"])
         [] choice = <<"2">> ->
              Request(<<"Perform a detailed search with metadata for: ">> \o query,
                      [query |-> query, num_results |-> asked_number(num_entry),
                       search_type |-> "detailed"])
         [] choice = <<"3">> ->
              Request(<<"Perform a quick search for: ">> \o query,
                      [query |-> query, search_type |-> "quick"])
         [] choice = <<"4">> ->
              Request(<<"Conduct comprehensive research on: ">> \o query,
                      [topic |-> query, search_type |-> "research"])
         [] OTHER ->
              LET q == OrDefault(query, <<"latest technology news">>)
              IN Request(<<"Search for: ">> \o q,
                         [query |-> q, search_type |-> "general"])

\* arxiv.py get_user_input
arxiv_get_user_input(choice_entry, topic_entry, num_entry) ==
    LET choice == strip(choice_entry)
        topic  == strip(topic_entry)
    IN CASE choice = <<"1">> ->
              Request(<<"Search for papers related to: ">> \o topic,
                      [topic |-> topic, search_type |-> "topic_search"])
         [] choice = <<"2">> ->
              Request(<<"Get detailed information for ArXiv paper: ">> \o topic,
                      [arxiv_id |-> topic, search_type |-> "paper_details"])
         [] choice = <<"3">> ->
              Request(<<"Conduct comprehensive research on: ">> \o topic,
                      [topic |-> topic, max_papers |-> asked_number(num_entry),
                       search_type |-> "comprehensive"])
         [] choice = <<"4">> ->
              Request(<<"Analyze recent research trends in: ">> \o topic,
                      [field |-> topic, search_type |-> "trend_analysis"])
         [] OTHER ->
              LET t == OrDefault(topic, <<"machine learning">>)
              IN Request(<<"Research papers on: ">> \o t,
                         [topic |-> t, search_type |-> "general"])

\* a get_task_type that takes every entry it does not know for "generate"
task_type_or_generate(entry) ==
    LET choice == int(entry)
    IN IF choice.ok /\ choice.val = 1 THEN [task_type |-> "knowledge", printed |-> <<>>]
       ELSE IF choice.ok /\ choice.val = 3 THEN [task_type |-> "nocode", printed |-> <<>>]
       ELSE IF choice.ok /\ choice.val = 4 THEN [task_type |-> "all", printed |-> <<>>]
       ELSE [task_type |-> "generate", printed |-> <<>>]

\* writer_tools.py get_task_type, one turn of its loop: the task type it
\* returns, or None with the complaint it prints before asking again
get_task_type(entry) ==
    LET choice == int(entry)
    IN IF ~choice.ok
       THEN [task_type |-> None, printed |-> <<"Please enter a valid number">>]
       ELSE CASE choice.val = 1 -> [task_type |-> "knowledge", printed |-> <<>>]
              [] choice.val = 2 -> [task_type |-> "generate", printed |-> <<>>]
              [] choice.val = 3 -> [task_type |-> "nocode", printed |-> <<>>]
              [] choice.val = 4 -> [task_type |-> "all", printed |-> <<>>]
              [] OTHER -> [task_type |-> None,
                           printed |-> <<"Please enter 1, 2, 3, or 4">>]

MainScripts == {"PAID_google_search", "arxiv", "wikipedia", "wolfram_alpha",
                "writer_tools"}
\* mains that ask once through get_user_input and run one crew
MenuScripts == {"PAID_google_search", "arxiv"}
\* mains that prompt in a `while True` loop inside try/except Exception
LoopScripts == {"wikipedia", "wolfram_alpha", "writer_tools"}

\* a tools list that holds another script's tool
tools_with_foreign(s) == <<"search_google", "search_wikipedia">>

\* the tools list main hands to its agent, in the order it is written
tools(s) ==
    CASE s = "PAID_google_search" ->
            <<"search_google", "search_google_detailed", "quick_google_search">>
      [] s = "arxiv" ->
            <<"search_arxiv_papers", "get_paper_details", "research_arxiv_topic">>
      [] s = "writer_tools" ->
            <<"search_knowledge_graph", "writer_chat_completion", "use_nocode_app">>
      [] s = "wikipedia"     -> <<"search_wikipedia">>
      [] s = "wolfram_alpha" -> <<"wolfram_alpha_query">>

\* a task built on top of the request served before
create_task_on_last_request(s, task_type, topic) ==
    Request(request.request \o <<"and then '">> \o topic \o <<"'">>,
            CASE s = "wikipedia"     -> [topic |-> topic]
              [] s = "wolfram_alpha" -> [query |-> topic]
              [] s = "writer_tools"  -> [query |-> topic, task_type |-> task_type])

\* the task description the loop mains build from what was typed
create_task(s, task_type, topic) ==
    CASE s = "wikipedia" ->
            Request(<<"Research '">> \o topic
                    \o <<"' using Wikipedia and provide a comprehensive overview.">>,
                    [topic |-> topic])
      [] s = "wolfram_alpha" ->
            Request(<<"Use Wolfram Alpha to solve this query: '">> \o topic \o <<"'.">>,
                    [query |-> topic])
      [] s = "writer_tools" ->
            Request((CASE task_type = "knowledge" ->
                            <<"Use the Writer Knowledge Graph to find comprehensive information about '">>
                       [] task_type = "generate" ->
                            <<"Use Writer's chat models to generate high-quality content about '">>
                       [] task_type = "nocode" ->
                            <<"Use Writer's no-code application to process '">>
                       [] task_type = "all" ->
                            <<"Research '">>
                       [] OTHER ->
                            <<"Use Writer's chat models to generate high-quality content about '">>)
                    \o topic \o <<"'">>,
                    [query |-> topic, task_type |-> task_type])

\* a main that wraps its crew run in try/except Exception in every script
catches_in_every_script(s, e) == e.cls \in ExceptionSubclasses

\* does main catch exception e raised while its crew runs
main_catches(s, e) == s \in LoopScripts /\ e.cls \in ExceptionSubclasses

\* what crew.kickoff() can raise, and the final answers it can return
KickoffExcs == {Exc("RuntimeError", "boom"), Exc("KeyboardInterrupt", "")}
ResultTexts == {"final answer", ""}

\* the longest run of tool invocations an agent makes in one crew run, and
\* the most requests a loop main is given before the user leaves
MaxAttempts == 3
MaxRequests == 2

Init ==
    /\ script \in MainScripts
    /\ environ \in Environments(script)
    /\ absent \in SUBSET OptionalPackages(script)
    /\ pc = "main"
    /\ typed = NoTyped
    /\ request = NoRequest /\ kickoffs = 0 /\ attempts = <<>> /\ out = <<>>
    /\ uncaught = NoExc
    /\ tool_call = NoCall /\ tool_ret = NoRet /\ inner = NoExc /\ outbound = <<>>
    /\ term_list = <<>> /\ idx = 0 /\ comparison_results = <<>>

\* main up to its first prompt: the credential and dependency checks
CheckRequirements ==
    /\ pc = "main"
    /\ LET printed == requirements(script)
       IN IF printed # <<>>
          THEN out' = printed /\ pc' = "done"
          ELSE out' = out /\ pc' = IF script \in MenuScripts THEN "input" ELSE "prompt"
    /\ UNCHANGED <<script, environ, absent, uncaught, typed, request, kickoffs, attempts,
                   toolVars, trendVars>>

\* get_user_input() and the "Request:" print that follows it
GetUserInput ==
    /\ pc = "input"
    /\ \E c \in ChoiceEntries, q \in QueryEntries, n \in NumEntries :
          LET r == IF script = "PAID_google_search"
                   THEN PAID_google_search_get_user_input(c, q, n)
                   ELSE arxiv_get_user_input(c, q, n)
          IN /\ typed' = Typed("get_user_input",
                              IF "num_results" \in DOMAIN r.params
                                 \/ "max_papers" \in DOMAIN r.params
                              THEN <<c, q, n>> ELSE <<c, q>>)
             /\ request' = r
             /\ out' = Append(out, Block("banner", <<"Request: ">> \o r.request))
    /\ pc' = "ready"
    /\ UNCHANGED <<script, environ, absent, uncaught, kickoffs, attempts, toolVars, trendVars>>

\* one turn of a loop main's `while True`, up to the crew run
LoopPrompt ==
    /\ pc = "prompt"
    /\ \E e \in PromptEntries :
          LET topic == strip(e) IN
          /\ typed' = Typed("prompt", <<e>>)
          /\ IF lower(topic) \in {<<"e", "x", "i", "t">>, <<"q", "u", "i", "t">>, <<"q">>}
             THEN /\ out' = Append(out, Block("goodbye", <<"Goodbye!">>))
                  /\ pc' = "done"
                  /\ UNCHANGED request
             ELSE IF topic = <<>>
             THEN /\ pc' = "prompt"
                  /\ UNCHANGED <<request, out>>
             ELSE IF script = "writer_tools"
             THEN /\ kickoffs < MaxRequests
                  /\ request' = Request(topic, [query |-> topic, task_type |-> None])
                  /\ pc' = "task_type"
                  /\ UNCHANGED out
             ELSE /\ kickoffs < MaxRequests
                  /\ request' = create_task(script, None, topic)
                  /\ out' = Append(out, Block("banner", <<"Researching: '">> \o topic \o <<"'...">>))
                  /\ pc' = "ready"
    /\ UNCHANGED <<script, environ, absent, uncaught, kickoffs, attempts, toolVars, trendVars>>

\* writer_tools.py: one turn of get_task_type's loop; on a task type, main
\* goes on to build the task
GetTaskType ==
    /\ pc = "task_type"
    /\ \E e \in NumEntries :
          LET r == get_task_type(e) IN
          /\ typed' = Typed("get_task_type", <<e>>)
          /\ IF r.task_type = None
             THEN /\ pc' = "task_type"
                  /\ UNCHANGED <<request, out>>
             ELSE /\ request' = create_task(script, r.task_type, request.params.query)
                  /\ out' = Append(out, Block("banner", <<"Processing with Writer AI: '">>
                                                        \o request.params.query \o <<"'...">>))
                  /\ pc' = "ready"
    /\ UNCHANGED <<script, environ, absent, uncaught, kickoffs, attempts, toolVars, trendVars>>

\* a create_search_task that marks the mapping it was given as used
create_task_marking_params(search_request, search_params) ==
    [description |-> <<"### Search Request:">> \o search_request,
     search_request |-> search_request,
     search_params |-> [search_params EXCEPT !.search_type = "used"]]

\* PAID_google_search.py create_search_task(search_request, search_params):
\* the description of the Task it returns, and its two arguments as the
\* call leaves them (the mapping is passed by reference)
create_search_task(search_request, search_params) ==
    LET params_str ==
            IF DOMAIN search_params = {} THEN <<"None">>
            ELSE <<[k \in DOMAIN search_params |-> <<"- ", k, ": ", search_params[k]>>]>>
    IN [description |-> <<"### Search Request:">> \o search_request
                        \o <<"### Search Parameters:">> \o params_str,
        search_request |-> search_request,
        search_params |-> search_params]

\* main from the building of the task to result = crew.kickoff(): the call
Kickoff ==
    /\ pc = "ready"
    /\ request' = IF script = "PAID_google_search"
                  THEN LET task == create_search_task(request.request, request.params)
                       IN Request(task.search_request, task.search_params)
                  ELSE request
    /\ kickoffs' = kickoffs + 1
    /\ attempts' = <<>>
    /\ pc' = "running"
    /\ UNCHANGED <<script, environ, absent, uncaught, typed, out, toolVars, trendVars>>

\* a main whose try is inside the loop: it reports the exception and asks
\* for the next request
RaisedAndAsksAgain(e) ==
    /\ out' = Append(out, Block("error", <<"Error: ", e.msg>>))
    /\ pc' = IF script \in LoopScripts THEN "prompt" ELSE "done"
    /\ UNCHANGED uncaught

\* an exception e comes out of crew.kickoff()
KickoffRaised(e) ==
    IF main_catches(script, e)
    THEN /\ out' = Append(out, Block("error", <<"Error: ", e.msg>>))
         /\ pc' = "done"
         /\ UNCHANGED uncaught
    ELSE /\ uncaught' = e
         /\ pc' = "raised"
         /\ UNCHANGED out

\* the running agent calls one of the tools it was given
AgentUsesTool ==
    /\ pc = "running"
    /\ Len(attempts) < MaxAttempts
    /\ \E i \in DOMAIN tools(script) : \E r \in ToolRuns(tools(script)[i]) :
          IF r.did.ret.kind = "raise"
          THEN KickoffRaised(r.did.ret.exc) /\ UNCHANGED attempts
          ELSE /\ attempts' = Append(attempts,
                      [tool |-> tools(script)[i],
                       failed |-> r.did.ret.value # <<>> /\ r.did.ret.value[1] = "Error"])
               /\ UNCHANGED <<out, pc, uncaught>>
    /\ UNCHANGED <<script, environ, absent, typed, request, kickoffs, toolVars, trendVars>>

\* a main that, having printed the result, runs the same crew again
ReturnsAndRetries ==
    /\ pc = "running"
    /\ \E result \in ResultTexts :
          out' = Append(out, Block("results", <<"RESULTS:", result>>))
    /\ pc' = IF kickoffs < MaxRequests THEN "ready" ELSE "done"
    /\ UNCHANGED <<script, environ, absent, uncaught, typed, request, kickoffs,
                   attempts, toolVars, trendVars>>

\* crew.kickoff() returns and main prints the result; a loop main goes
\* back to its prompt, where the crew of this turn is dropped
KickoffReturns ==
    /\ pc = "running"
    /\ \E result \in ResultTexts :
          out' = Append(out, Block("results", <<"RESULTS:", result>>))
    /\ pc' = IF script \in LoopScripts THEN "prompt" ELSE "done"
    /\ attempts' = IF script \in LoopScripts THEN <<>> ELSE attempts
    /\ UNCHANGED <<script, environ, absent, uncaught, typed, request, kickoffs,
                   toolVars, trendVars>>

\* crew.kickoff() raises (the LLM call fails, the user interrupts)
KickoffRaises ==
    /\ pc = "running"
    /\ \E e \in KickoffExcs : KickoffRaised(e)
    /\ UNCHANGED <<script, environ, absent, typed, request, kickoffs, attempts,
                   toolVars, trendVars>>

Next ==
    \/ CheckRequirements
    \/ GetUserInput
    \/ LoopPrompt
    \/ GetTaskType
    \/ Kickoff
    \/ AgentUsesTool
    \/ KickoffReturns
    \/ KickoffRaises

Spec == Init /\ [][Next]_vars

----------------------------------------------------------------------------
(* What a run of main guarantees (Spec) *)

\* main went past its credential checks: it did not stop on a
\* missing-credentials print
PastCredentialChecks ==
    pc # "main" /\ (out = <<>> \/ out[1].kind # "missing_credentials")

\* C3: a script goes past its credential checks exactly when every
\* credential it reads is set to a non-empty value.
C3_PastChecksIffAllCredentialsSet ==
    pc # "main" =>
        (PastCredentialChecks <=> \A c \in ScriptEnv(script) : Truthy(environ[c]))

\* wolfram_alpha.py stopped because WOLFRAM_ALPHA_APPID is set to ""
C3_Witness ==
    /\ script = "wolfram_alpha"
    /\ GEMINI_API_KEY = "key" /\ WOLFRAM_ALPHA_APPID = ""
    /\ pc = "done"
    /\ Len(out) = 1 /\ out[1].kind = "missing_credentials"
    /\ "WOLFRAM_ALPHA_APPID" \in Range(out[1].text)

RecognizedChoices == {<<"1">>, <<"2">>, <<"3">>, <<"4">>}

\* the request get_user_input builds from its default query alone
DefaultRequest(s) ==
    IF s = "PAID_google_search"
    THEN Request(<<"Search for: ", "latest technology news">>,
                 [query |-> <<"latest technology news">>, search_type |-> "general"])
    ELSE Request(<<"Research papers on: ", "machine learning">>,
                 [topic |-> <<"machine learning">>, search_type |-> "general"])

\* the last input step met a choice that is not one of the four on the menu
UnrecognizedMenuChoice ==
    typed.at = "get_user_input" /\ strip(typed.entries[1]) \notin RecognizedChoices

UnrecognizedTaskType ==
    typed.at = "get_task_type"
    /\ (~int(typed.entries[1]).ok \/ int(typed.entries[1]).val \notin 1..4)

AllAttemptsFailed == \A i \in DOMAIN attempts : attempts[i].failed

ReportKinds == {"results", "error", "missing_credentials", "missing_dependency"}

\* C9: when main has ended after its checks failed or after a crew run, and
\* the user did not interrupt it, it has printed a report: results, an error
\* notice or a missing-requirement notice.
C9_EndsWithReport ==
    (pc \in {"done", "raised"} /\ (kickoffs > 0 \/ ~PastCredentialChecks)
     /\ uncaught.cls # "KeyboardInterrupt") =>
        \E i \in DOMAIN out : out[i].kind \in ReportKinds

----------------------------------------------------------------------------
(* google_trends.py compare_trends, one loop iteration per step            *)
(* (SpecTrends).  The text it builds is a sequence of lines; a line is a   *)
(* record of the pieces its f-string puts together.                        *)

\* a split that leaves out the pieces with nothing in them
RECURSIVE split_dropping_empty(_, _)
split_dropping_empty(s, sep) ==
    LET at == {i \in DOMAIN s : s[i] = sep}
    IN IF at = {} THEN (IF s = <<>> THEN <<>> ELSE <<s>>)
       ELSE LET i == CHOOSE j \in at : \A k \in at : j <= k
                rest == split_dropping_empty(Slice(s, i + 1, Len(s)), sep)
            IN IF i = 1 THEN rest ELSE <<Slice(s, 1, i - 1)>> \o rest

\* str.split(sep) on a sequence of characters
RECURSIVE split(_, _)
split(s, sep) ==
    LET at == {i \in DOMAIN s : s[i] = sep}
    IN IF at = {} THEN <<s>>
       ELSE LET i == CHOOSE j \in at : \A k \in at : j <= k
            IN <<Slice(s, 1, i - 1)>> \o split(Slice(s, i + 1, Len(s)), sep)

\* str.title() on the letters the terms use: a letter that starts a word
\* is made upper case, the others lower case
title(s) ==
    [i \in DOMAIN s |->
        IF i = 1 \/ s[i - 1] = " "
        THEN (CASE s[i] = "a" -> "A" [] s[i] = "b" -> "B" [] OTHER -> s[i])
        ELSE (CASE s[i] = "A" -> "a" [] s[i] = "B" -> "b" [] OTHER -> s[i])]

\* float(s) succeeds on these texts and raises ValueError on the others
Floats == {"42.5", "100"}

Line(kind, i, term, value) == [kind |-> kind, i |-> i, term |-> term, value |-> value]
BlankLine == Line("blank", 0, <<>>, "")

\* the lines the `for line in lines` loop appends for the provider's lines
\* up to the first it cannot parse
RECURSIVE trend_lines(_)
trend_lines(lines) ==
    IF lines = <<>> THEN [appended |-> <<>>, exc |-> NoExc]
    ELSE LET line == Head(lines)
             rest == trend_lines(Tail(lines))
             one(l) == [appended |-> <<l>> \o rest.appended, exc |-> rest.exc]
         IN CASE line.key = "Average Value" ->
                   IF line.value \in Floats
                   THEN one(Line("Average Interest", 0, <<>>, line.value))
                   ELSE [appended |-> <<>>,
                         exc |-> Exc("ValueError", "could not convert string to float")]
              [] line.key = "Precent Change" ->
                   one(Line("Trend Change", 0, <<>>, line.value))
              [] line.key = "Max Value" ->
                   one(Line("Peak Interest", 0, <<>>, line.value))
              [] OTHER -> [appended |-> rest.appended, exc |-> rest.exc]

\* an iteration without the inner try: what is raised leaves the loop
iteration_without_try(i, term, prov) ==
    IF prov.kind = "raise"
    THEN [appended |-> <<>>, inner |-> prov.exc, escaped |-> prov.exc]
    ELSE [appended |-> <<Line("header", i, title(term), ""), BlankLine>>,
          inner |-> NoExc, escaped |-> NoExc]

\* an iteration that leaves out a term it has seen before
iteration_skipping_seen(i, term, prov) ==
    IF \E k \in DOMAIN attempts : attempts[k].tool = term
    THEN [appended |-> <<>>, inner |-> NoExc, escaped |-> NoExc]
    ELSE iteration_without_try(i, term, prov)

\* one iteration of compare_trends' loop for the i-th term: the lines it
\* appends to comparison_results, the exception raised in its try block,
\* and the exception that leaves the loop (NoExc when none)
compare_iteration(i, term, prov) ==
    LET error(e) ==
            IF e.cls \in ExceptionSubclasses
            THEN [appended |-> <<Line("Error analyzing", 0, term, e.msg), BlankLine>>,
                  inner |-> e, escaped |-> NoExc]
            ELSE [appended |-> <<>>, inner |-> e, escaped |-> e]
    IN IF prov.kind = "raise" THEN error(prov.exc)
       ELSE IF prov.value = None
       THEN error(Exc("AttributeError", "'NoneType' object has no attribute 'split'"))
       ELSE LET header == Line("header", i, title(term), "")
                body   == trend_lines(prov.value)
            IN IF body.exc = NoExc
               THEN [appended |-> <<header>> \o body.appended \o <<BlankLine>>,
                     inner |-> NoExc, escaped |-> NoExc]
               ELSE LET e == error(body.exc)
                    IN [appended |-> <<header>> \o body.appended \o e.appended,
                        inner |-> e.inner, escaped |-> e.escaped]

\* what is typed or passed as `terms`
TermsEntries == {<<>>, <<"a">>, <<"a", ",", "b">>, <<"a", ",", " ", "a">>,
                 <<"a", ",">>, <<"b", " ", "a", ",", "a", ",", "b">>,
                 <<" ", "a", " ", ",", "b", ",", "a">>}

TrendLine(key, value) == [key |-> key, value |-> value]

\* what trends_wrapper.run(term) can do
TrendOutcomes ==
    {ProvRaise(Exc("RuntimeError", "boom")), ProvRaise(Exc("KeyboardInterrupt", "")),
     ProvReturn(None),
     ProvReturn(<<>>),
     ProvReturn(<<TrendLine("Query", "a"), TrendLine("Max Value", "100"),
                  TrendLine("Average Value", "42.5"),
                  TrendLine("Precent Change", "10%")>>),
     ProvReturn(<<TrendLine("Max Value", "100"), TrendLine("Average Value", "n/a"),
                  TrendLine("Precent Change", "10%")>>)}

InitTrends ==
    /\ script = "google_trends"
    /\ environ \in Environments(script)
    /\ absent = {}
    /\ pc = "trends"
    /\ typed = NoTyped
    /\ request = NoRequest /\ kickoffs = 0 /\ attempts = <<>> /\ out = <<>>
    /\ uncaught = NoExc
    /\ tool_call = NoCall /\ tool_ret = NoRet /\ inner = NoExc /\ outbound = <<>>
    /\ term_list = <<>> /\ idx = 0 /\ comparison_results = <<>>

\* compare_trends(terms) up to its loop
CompareStart ==
    /\ pc = "trends"
    /\ \E terms \in TermsEntries :
          LET list == [i \in DOMAIN split(terms, ",") |-> strip(split(terms, ",")[i])]
          IN /\ tool_call' = [tool |-> "compare_trends", args |-> <<terms>>]
             /\ IF ~Truthy(SERP_API_KEY)
                THEN /\ tool_ret' = Returned(<<"Error", ": SERP_API_KEY not found. Please set your SerpAPI key in environment variables.">>)
                     /\ pc' = "returned"
                     /\ UNCHANGED trendVars
                ELSE IF Len(list) < 2
                THEN /\ tool_ret' = Returned(<<"Please provide at least 2 terms separated by commas for comparison.">>)
                     /\ pc' = "returned"
                     /\ term_list' = list
                     /\ UNCHANGED <<idx, comparison_results>>
                ELSE /\ term_list' = list
                     /\ idx' = 0
                     /\ comparison_results' =
                            <<Line("**Trend Comparison Analysis**", 0, <<>>, ""), BlankLine>>
                     /\ pc' = "loop"
                     /\ UNCHANGED tool_ret
    /\ UNCHANGED <<script, environ, absent, mainVars, inner, outbound>>

\* one iteration of `for i, term in enumerate(term_list, 1)`
CompareStep ==
    /\ pc = "loop"
    /\ idx < Len(term_list)
    /\ \E prov \in TrendOutcomes :
          LET term == term_list[idx + 1]
              it   == compare_iteration(idx + 1, term, prov)
          IN /\ outbound' = Append(outbound, [api |-> "GoogleTrendsAPIWrapper.run",
                                              query |-> term, key |-> SERP_API_KEY])
             /\ attempts' = Append(attempts, [tool |-> term, failed |-> it.inner # NoExc])
             /\ inner' = it.inner
             /\ comparison_results' = comparison_results \o it.appended
             /\ IF it.escaped = NoExc
                THEN idx' = idx + 1 /\ UNCHANGED <<pc, tool_ret>>
                ELSE /\ tool_ret' = except_Exception(it.escaped, " in trends comparison: ")
                     /\ pc' = "returned"
                     /\ UNCHANGED idx
    /\ UNCHANGED <<script, environ, absent, typed, request, kickoffs, out, uncaught,
                   tool_call, term_list>>

\* return comparison_results
CompareReturn ==
    /\ pc = "loop"
    /\ idx = Len(term_list)
    /\ tool_ret' = Returned(comparison_results)
    /\ pc' = "returned"
    /\ UNCHANGED <<script, environ, absent, mainVars, tool_call, inner, outbound,
                   trendVars>>

NextTrends ==
    \/ CompareStart
    \/ CompareStep
    \/ CompareReturn

SpecTrends == InitTrends /\ [][NextTrends]_vars

----------------------------------------------------------------------------
(* What compare_trends guarantees (SpecTrends) *)

\* the runs of lines that blank lines separate
RECURSIVE blocks(_)
blocks(ls) ==
    LET at == {i \in DOMAIN ls : ls[i] = BlankLine}
    IN IF ls = <<>> THEN <<>>
       ELSE IF at = {} THEN <<ls>>
       ELSE LET i == CHOOSE j \in at : \A k \in at : j <= k
            IN <<Slice(ls, 1, i - 1)>> \o blocks(Slice(ls, i + 1, Len(ls)))

\* the blocks after the title
result_blocks(text) == Tail(blocks(text))

FailureLabelled(b) == \E j \in DOMAIN b : b[j].kind = "Error analyzing"
SuccessLabelled(b) == \E j \in DOMAIN b : b[j].kind = "header"
HasPayload(b) ==
    \E j \in DOMAIN b : b[j].kind \in {"Average Interest", "Trend Change", "Peak Interest"}

LoopStarted == comparison_results # <<>>

C10_EachBlockSuccessOrFailure ==
    LoopStarted =>
        \A i \in DOMAIN result_blocks(comparison_results) :
            LET b == result_blocks(comparison_results)[i]
            IN FailureLabelled(b) => ~SuccessLabelled(b) /\ ~HasPayload(b)

----------------------------------------------------------------------------
(* SpecReports: the two tools that format a report out of what their       *)
(* provider gave, compare_trends step by step and quick_news_brief         *)

InitNews == InitTools /\ script = "ask_news"

InitReports == InitTrends \/ InitNews

NextReports ==
    \/ CompareStart
    \/ CompareStep
    \/ CompareReturn
    \/ call_quick_news_brief

SpecReports == InitReports /\ [][NextReports]_vars

\* the tool call has ended
Finished == pc = "returned" \/ (pc = "tools" /\ called)

\* the provider call was interrupted from the keyboard
Interrupted == inner.cls = "KeyboardInterrupt"

\* C11: whatever the provider gave for each item, text, nothing, a value
\* that is no text or an exception derived from Exception, also when it
\* failed for every item, the formatting tool returns and what it returns is
\* not empty.
C11_ReportNeverEmpty ==
    (Finished /\ ~Interrupted) =>
        /\ tool_ret.kind = "return"
        /\ tool_ret.value # <<>>
        /\ LoopStarted => tool_ret.value[1] = Line("**Trend Comparison Analysis**", 0, <<>>, "")

\* compare_trends over three terms for each of which the provider failed
C11_Witness ==
    /\ tool_call.tool = "compare_trends" /\ pc = "returned"
    /\ Len(term_list) = 3 /\ Len(attempts) = 3 /\ AllAttemptsFailed
    /\ tool_ret.kind = "return"
    /\ Len(result_blocks(tool_ret.value)) = 3
    /\ \A i \in 1..3 : FailureLabelled(result_blocks(tool_ret.value)[i])

----------------------------------------------------------------------------
(* SpecCalls: a provider call in flight.  search_arxiv_papers waits in     *)
(* requests.get, agentql_extract_web_data in tool.invoke; the provider     *)
(* answers when it answers, if it does.                                    *)

CallScripts == {"arxiv", "agentQL"}

InitCalls == InitTools /\ script \in CallScripts

\* whether the provider call was given a timeout: ExtractWebDataTool is
\* built with timeout=timeout, requests.get(base_url, params=params) has none
has_timeout(call) == call.api = "ExtractWebDataTool.invoke"

\* the wrapper has reached its provider call
Start(tool) ==
    /\ pc = "tools"
    /\ \E r \in ToolRuns(tool) :
          /\ tool_call' = [tool |-> tool, args |-> r.args]
          /\ outbound' = r.did.calls
    /\ tool_ret' = NoRet
    /\ inner' = NoExc
    /\ pc' = "waiting"
    /\ UNCHANGED <<script, environ, absent, mainVars, trendVars>>

start_search_arxiv_papers ==
    /\ script = ScriptOf("search_arxiv_papers")
    /\ Start("search_arxiv_papers")

start_agentql_extract_web_data ==
    /\ script = ScriptOf("agentql_extract_web_data")
    /\ Start("agentql_extract_web_data")

\* the provider call returns or raises, and the wrapper finishes
ProviderAnswers ==
    /\ pc = "waiting"
    /\ \E r \in ToolRuns(tool_call.tool) :
          /\ r.args = tool_call.args
          /\ tool_ret' = r.did.ret
          /\ inner' = r.did.inner
    /\ pc' = "tools"
    /\ UNCHANGED <<script, environ, absent, mainVars, trendVars, tool_call, outbound>>

\* the timeout the call was given runs out: the call raises inside the
\* wrapper's try block
TimeoutExpires ==
    /\ pc = "waiting"
    /\ has_timeout(outbound[1])
    /\ LET e   == Exc("TimeoutError", "timed out")
           did == agentql_extract_web_data(tool_call.args[1], tool_call.args[2],
                                           tool_call.args[3], tool_call.args[4],
                                           ProvRaise(e))
       IN /\ tool_ret' = did.ret
          /\ inner' = did.inner
    /\ pc' = "tools"
    /\ UNCHANGED <<script, environ, absent, mainVars, trendVars, tool_call, outbound>>

NextCalls ==
    \/ start_search_arxiv_papers
    \/ start_agentql_extract_web_data
    \/ ProviderAnswers
    \/ TimeoutExpires

\* time passes, so a timeout that was set does run out; nothing obliges a
\* provider to answer
SpecCalls == InitCalls /\ [][NextCalls]_vars /\ WF_vars(TimeoutExpires)

\* C12: every provider call eventually returns control to the tool's
\* caller: a call that the provider does not answer is ended by its timeout.
C12_EveryCallReturns == (pc = "waiting") ~> (pc = "tools")

----------------------------------------------------------------------------
(* SpecTwice: the same process asks twice: get_user_input is run twice, or *)
(* search_knowledge_graph is called twice, and `attempts` keeps, for each  *)
(* invocation, what went in and what came out.                             *)

TwiceScripts == {"PAID_google_search", "writer_tools"}

\* main reaches get_user_input only with its credentials set
InitTwice ==
    /\ InitTools
    /\ script \in TwiceScripts
    /\ script = "PAID_google_search" => \A c \in ScriptEnv(script) : Truthy(environ[c])

\* one invocation as `attempts` keeps it
Invocation(tool, args, prov, ret, calls) ==
    [tool |-> tool, args |-> args, prov |-> prov, ret |-> ret, calls |-> calls,
     failed |-> ret.kind = "return" /\ ret.value # <<>> /\ ret.value[1] = "Error"]

\* get_user_input() run once more by the same process
get_user_input_again ==
    /\ script = "PAID_google_search"
    /\ pc = "tools"
    /\ Len(attempts) < 2
    /\ \E choice_entry \in ChoiceEntries, query_entry \in QueryEntries,
          num_entry \in NumEntries :
          LET entries == <<choice_entry, query_entry,
                           IF strip(choice_entry) = <<"2">> THEN num_entry ELSE <<>>>>
              got == PAID_google_search_get_user_input(choice_entry, query_entry, num_entry)
          IN /\ typed' = Typed("get_user_input", entries)
             /\ request' = got
             /\ attempts' = Append(attempts,
                    [tool |-> "get_user_input", args |-> entries,
                     prov |-> ProvReturn(""), ret |-> Returned(<<got>>),
                     calls |-> <<>>, failed |-> FALSE])
    /\ UNCHANGED <<script, environ, absent, pc, kickoffs, out, uncaught, toolVars,
                   trendVars>>

\* search_knowledge_graph called once more by the same process
search_knowledge_graph_again ==
    /\ script = "writer_tools"
    /\ pc = "tools"
    /\ Len(attempts) < 2
    /\ \E query \in Queries, graph_id \in CredValues, prov \in TextOutcomes :
          LET did == search_knowledge_graph(query, graph_id, prov)
          IN /\ tool_call' = [tool |-> "search_knowledge_graph",
                              args |-> <<query, graph_id>>]
             /\ tool_ret' = did.ret
             /\ inner' = did.inner
             /\ outbound' = did.calls
             /\ attempts' = Append(attempts,
                    Invocation("search_knowledge_graph", <<query, graph_id>>, prov,
                               did.ret, did.calls))
    /\ UNCHANGED <<script, environ, absent, pc, typed, request, kickoffs, out,
                   uncaught, trendVars>>

NextTwice ==
    \/ get_user_input_again
    \/ search_knowledge_graph_again

SpecTwice == InitTwice /\ [][NextTwice]_vars

\* the status of a result and the provider it names
status(inv) ==
    IF inv.ret.kind = "raise" THEN "raised"
    ELSE IF inv.failed THEN "failure" ELSE "success"

attribution(inv) == [i \in DOMAIN inv.calls |-> inv.calls[i].api]

----------------------------------------------------------------------------
(* The life of one crew run (Spec) *)

\* how many blocks of a kind main has printed
Printed(kind) == Cardinality({i \in DOMAIN out : out[i].kind = kind})

\* the runs that have ended: by a result or by a caught exception
Completed == Printed("results") + Printed("error")

\* C14: a run that has produced its result is over: main never goes back
\* into it.  The two ends of main are final; a run is entered only from a
\* task built after the run before it ended, as run number kickoffs + 1 and
\* with no tool invocation carried over; and every run before the current
\* one ended exactly once.
C14_CompletedIsTerminal ==
    [][/\ pc \in {"done", "raised"} => pc' = pc
       /\ (pc = "running" /\ pc' # "running") =>
             /\ pc' \in {"done", "raised", "prompt"}
             /\ kickoffs' = kickoffs
       /\ (pc # "running" /\ pc' = "running") =>
             /\ pc = "ready"
             /\ kickoffs' = kickoffs + 1
             /\ attempts' = <<>>
             /\ Printed("banner") = kickoffs + 1
             /\ Completed = kickoffs
       /\ pc' = "prompt" => Completed' = kickoffs'
      ]_vars

\* wikipedia.py in its second run: two tasks were built, the first run is over
C14_Witness ==
    /\ script = "wikipedia" /\ pc = "running" /\ kickoffs = 2
    /\ Printed("banner") = 2 /\ Printed("results") = 1
    /\ attempts # <<>>

----------------------------------------------------------------------------
(* Outbound calls per tool invocation (SpecTools) *)

\* the tools C15 is written about, compare_trends aside
SingleCallTools == {"search_web", "vectara_rag_search"}

\* C15: an invocation of a tool makes exactly one provider call when every
\* credential of its provider is set and none when one is missing.
C15_OneCallIffCredentials ==
    (called /\ tool_call.tool \in SingleCallTools) =>
        IF \A c \in required_credentials(tool_call.tool) : Truthy(environ[c])
        THEN Len(outbound) = 1
        ELSE Len(outbound) = 0

----------------------------------------------------------------------------
(* SpecInputs: get_user_input of the scripts that ask for a number, run by *)
(* a main that has passed its credential checks.                           *)

\* what is typed at a y/N prompt
YesNoEntries == {<<>>, <<"Y">>, <<"N">>}

\* what a get_user_input did: the request it returned, or the exception
\* that left it
Asked(req, exc) == [request |-> req, exc |-> exc]

ValueError == Exc("ValueError", "invalid literal for int() with base 10")

\* agentQL.py get_user_input.  Mode is answered blank.
agentQL_get_user_input(url_entry, prompt_entry, query_entry, stealth_entry, scroll_entry, timeout_entry) ==
    LET url     == strip(url_entry)
        prompt  == strip(prompt_entry)
        query   == IF prompt = <<>> THEN strip(query_entry) ELSE <<>>
        mode    == OrDefault(strip(<<>>), <<"fast">>)
        timeout == int(OrDefault(strip(timeout_entry), <<"1", "2", "0">>))
    IN IF ~timeout.ok THEN Asked(NoRequest, ValueError)
       ELSE Asked(Request(<<"Extract data from ">> \o url \o <<" using ">>
                              \o (IF query # <<>> THEN <<"AgentQL query">>
                                  ELSE <<"natural language prompt">>),
                          [url |-> url, prompt |-> prompt, query |-> query,
                           mode |-> mode,
                           is_stealth_mode_enabled |-> lower(strip(stealth_entry)) = <<"y">>,
                           is_scroll_to_bottom_enabled |-> lower(strip(scroll_entry)) = <<"y">>,
                           timeout |-> timeout.val]),
                  NoExc)

\* WAITLIST_ads4gpts.py get_user_input.  The text prompts other than the
\* ad topic are answered blank and get their defaults.
ads4gpts_get_user_input(topic_entry, num_entry) ==
    LET ad_recommendation == OrDefault(strip(topic_entry), <<"latest fashion sale">>)
        num_ads == int(OrDefault(strip(num_entry), <<"1">>))
    IN IF ~num_ads.ok THEN Asked(NoRequest, ValueError)
       ELSE Asked(Request(<<"Fetch an inline sponsored ad for a '", "female",
                            "', age '", "25-34", "', interested in '">>
                              \o ad_recommendation \o <<"'">>,
                          [id |-> "unique_user_id_001", user_gender |-> "female",
                           user_age |-> "25-34", user_persona |-> "test_persona",
                           ad_recommendation |-> ad_recommendation,
                           undesired_ads |-> "gambling",
                           context |-> "user browsing for summer wear",
                           num_ads |-> num_ads.val, style |-> "neutral",
                           ad_format |-> "INLINE_SPONSORED_RESPONSE"]),
                  NoExc)

InputScripts == {"PAID_google_search", "agentQL", "WAITLIST_ads4gpts", "youtube"}

InitInputs ==
    /\ script \in InputScripts
    /\ environ = [n \in EnvNames |-> IF n \in ScriptEnv(script) THEN "key" ELSE None]
    /\ absent = {}
    /\ pc = "input"
    /\ typed = NoTyped
    /\ request = NoRequest /\ kickoffs = 0 /\ attempts = <<>> /\ out = <<>>
    /\ uncaught = NoExc
    /\ tool_call = NoCall /\ tool_ret = NoRet /\ inner = NoExc /\ outbound = <<>>
    /\ term_list = <<>> /\ idx = 0 /\ comparison_results = <<>>

\* main's `request, params = get_user_input()`: the entries typed, the
\* number last, and what came of them
UserInput(entries, asked) ==
    /\ pc = "input"
    /\ typed' = Typed("get_user_input", entries)
    /\ IF asked.exc = NoExc
       THEN /\ request' = asked.request
            /\ out' = Append(out, Block("banner", <<"Starting: ">> \o asked.request.request))
            /\ pc' = "ready"
            /\ UNCHANGED uncaught
       ELSE /\ uncaught' = asked.exc
            /\ pc' = "raised"
            /\ UNCHANGED <<request, out>>
    /\ UNCHANGED <<script, environ, absent, kickoffs, attempts, toolVars, trendVars>>

PAID_google_search_input ==
    /\ script = "PAID_google_search"
    /\ \E c \in {<<"2">>, <<" ", "2">>}, q \in QueryEntries, n \in NumEntries :
          UserInput(<<c, q, n>>, Asked(PAID_google_search_get_user_input(c, q, n), NoExc))

agentQL_input ==
    /\ script = "agentQL"
    /\ \E p \in QueryEntries, q \in QueryEntries, st \in YesNoEntries,
          sc \in YesNoEntries, t \in NumEntries :
          UserInput(<<<<"u">>, p, q, st, sc, t>>,
                    agentQL_get_user_input(<<"u">>, p, q, st, sc, t))

ads4gpts_input ==
    /\ script = "WAITLIST_ads4gpts"
    /\ \E a \in QueryEntries, n \in NumEntries :
          UserInput(<<a, n>>, ads4gpts_get_user_input(a, n))

\* what is typed at the prompt of youtube.py for the number of videos
VideoCountEntries == NumEntries \cup {<<"2", "0">>, <<"2", "1">>}

\* a number prompt that takes 5 for whatever it cannot use
video_count_or_default(entry) ==
    LET n == int(strip(entry))
    IN IF n.ok /\ n.val > 0
       THEN [asked |-> TRUE, num_results |-> Min(n.val, 20)]
       ELSE [asked |-> TRUE, num_results |-> 5]

\* youtube.py get_user_input, one turn of its `while True` on the number of
\* videos: whether the loop is left, and with which number
video_count(entry) ==
    LET num_results == strip(entry)
        n == int(num_results)
    IN IF num_results = <<>> THEN [asked |-> TRUE, num_results |-> 5]
       ELSE IF ~n.ok THEN [asked |-> FALSE, num_results |-> 0]
       ELSE IF n.val <= 0 THEN [asked |-> FALSE, num_results |-> 0]
       ELSE IF n.val > 20 THEN [asked |-> TRUE, num_results |-> 20]
       ELSE [asked |-> TRUE, num_results |-> n.val]

\* youtube.py get_user_input up to its number loop: the topic
youtube_topic ==
    /\ script = "youtube"
    /\ pc = "input"
    /\ \E e \in QueryEntries :
          LET topic == IF strip(e) = <<>> THEN <<"lex fridman">> ELSE strip(e)
          IN /\ typed' = Typed("topic", <<e>>)
             /\ request' = Request(topic, [topic |-> topic])
    /\ pc' = "number"
    /\ UNCHANGED <<script, environ, absent, uncaught, kickoffs, attempts, out,
                   toolVars, trendVars>>

\* one turn of the number loop; when it is left, get_user_input returns and
\* main prints what it starts
youtube_number ==
    /\ script = "youtube"
    /\ pc = "number"
    /\ \E e \in VideoCountEntries :
          LET r == video_count(e)
          IN /\ typed' = Typed("number", <<e>>)
             /\ IF r.asked
                THEN /\ request' = Request(request.request,
                                           [topic |-> request.params.topic,
                                            num_results |-> r.num_results])
                     /\ out' = Append(out, Block("banner", <<"Starting: ">> \o request.request))
                     /\ pc' = "ready"
                ELSE UNCHANGED <<request, out, pc>>
    /\ UNCHANGED <<script, environ, absent, uncaught, kickoffs, attempts,
                   toolVars, trendVars>>

NextInputs ==
    \/ PAID_google_search_input
    \/ agentQL_input
    \/ ads4gpts_input
    \/ youtube_topic
    \/ youtube_number

SpecInputs == InitInputs /\ [][NextInputs]_vars

\* the entry typed at the number prompt, and the value the script falls
\* back to
number_entry == typed.entries[Len(typed.entries)]

number_asked ==
    CASE script = "PAID_google_search" -> request.params.num_results
      [] script = "agentQL"            -> request.params.timeout
      [] script = "WAITLIST_ads4gpts"  -> request.params.num_ads

HardcodedFallback ==
    CASE script = "PAID_google_search" -> 5
      [] script = "agentQL"            -> 120
      [] script = "WAITLIST_ads4gpts"  -> 1

\* C16: an entry at a number prompt that is not an integer is replaced by
\* the prompt's fallback value: get_user_input returns a request with that
\* value and raises nothing.
C16_InvalidNumberGetsFallback ==
    (typed.at = "get_user_input" /\ strip(number_entry) # <<>>
     /\ ~int(number_entry).ok) =>
        /\ pc = "ready"
        /\ uncaught = NoExc
        /\ number_asked = HardcodedFallback

----------------------------------------------------------------------------
(* Unregistered identifiers                                                *)

\* the call names a detector that detector_map does not hold
UnregisteredDetector ==
    /\ tool_call.tool = "zenguard_detect"
    /\ \E i \in DOMAIN tool_call.args[1] : tool_call.args[1][i] \notin detector_map

\* C17: a reference to an unregistered identifier is fatal: the call raises
\* the lookup's exception and returns no result to carry on with.
C17_UnregisteredIsFatal ==
    UnregisteredDetector =>
        tool_ret.kind = "raise" /\ tool_ret.exc.cls = "KeyError"

----------------------------------------------------------------------------
(* Credentials over the life of the process (SpecTwice) *)

\* invocation i left the graph id to the environment
FromEnvironment(i) ==
    /\ attempts[i].tool = "search_knowledge_graph"
    /\ ~Truthy(attempts[i].args[2])

----------------------------------------------------------------------------
(* How often main of PAID_google_search.py runs its crew (Spec) *)

\* every credential the script's checks look at is set
PassesCredentialGate == \A c \in ScriptEnv(script) : Truthy(environ[c])

----------------------------------------------------------------------------
(* The request after get_user_input returned it (Spec) *)

\* C20: once get_user_input has returned the request of a run, no step of
\* main changes its text or any entry of its parameter mapping: not the
\* building of the task description, not the crew run, not the prints.
C20_RequestNeverMutated ==
    [][(script \in MenuScripts /\ request # NoRequest) => request' = request]_vars

\* main ended after a crew run that used a tool, and the request is still
\* what get_user_input made of the three entries typed
C20_Witness ==
    /\ script = "PAID_google_search" /\ pc = "done" /\ kickoffs = 1
    /\ attempts # <<>>
    /\ Len(typed.entries) = 3
    /\ request = PAID_google_search_get_user_input(typed.entries[1], typed.entries[2],
                                                   typed.entries[3])
    /\ request.params.num_results = 3

----------------------------------------------------------------------------
(* What one turn of a loop main leaves for the next (Spec) *)

\* writer_tools.py get_task_type: the task types of the entries 1..4
TaskTypes == <<"knowledge", "generate", "nocode", "all">>

----------------------------------------------------------------------------
(* The provider calls of one compare_trends (SpecTrends) *)

\* s is the beginning of t
IsPrefix(s, t) == Len(s) <= Len(t) /\ \A i \in DOMAIN s : t[i] = s[i]

----------------------------------------------------------------------------
(* SpecGate: main of PAID_google_search.py, vectara.py and apify_actor.py  *)
(* from its credential checks to the end of its crew run.                  *)

\* a vectara.py main that does not look at the corpus key
vectara_checks_without_corpus ==
    IF ~Truthy(GEMINI_API_KEY)
    THEN <<Block("missing_credentials",
                 <<"Please set your GEMINI_API_KEY environment variable">>)>>
    ELSE IF ~Truthy(VECTARA_API_KEY)
    THEN <<Block("missing_credentials",
                 <<"Please set your VECTARA_API_KEY environment variable">>)>>
    ELSE <<>>

\* vectara.py main: the credential checks; what they print.  The
\* check_dependencies() that follows finds nothing missing: the script
\* imported langchain_vectara at its head.
vectara_credentials ==
    IF ~Truthy(GEMINI_API_KEY)
    THEN <<Block("missing_credentials",
                 <<"Please set your GEMINI_API_KEY environment variable">>)>>
    ELSE IF ~Truthy(VECTARA_API_KEY)
    THEN <<Block("missing_credentials",
                 <<"Please set your VECTARA_API_KEY environment variable",
                   "Get your API key from: https://vectara.com/">>)>>
    ELSE IF ~Truthy(VECTARA_CORPUS_KEY)
    THEN <<Block("missing_credentials",
                 <<"Please set your VECTARA_CORPUS_KEY environment variable",
                   "This identifies your specific corpus in Vectara">>)>>
    ELSE <<>>

\* apify_actor.py main: the credential checks; what they print
apify_actor_credentials ==
    IF ~Truthy(GEMINI_API_KEY)
    THEN <<Block("missing_credentials",
                 <<"Please set your GEMINI_API_KEY environment variable">>)>>
    ELSE IF ~Truthy(APIFY_API_TOKEN)
    THEN <<Block("missing_credentials",
                 <<"Please set your APIFY_API_TOKEN environment variable",
                   "   1. Go to https://apify.com",
                   "   2. Create a free account",
                   "   3. Get your API token from the console",
                   "   4. Add APIFY_API_TOKEN=your_token_here to your .env file">>)>>
    ELSE <<>>

\* vectara.py create_rag_task(query), as the request main runs
create_rag_task(query) ==
    Request(<<"Use Vectara RAG to research and answer: '", query, "'. ">>,
            [query |-> query])

\* `min(max(int(entry or default), lo), hi)`; the default on ValueError
clamped(entry, default, lo, hi) ==
    LET n == int(OrDefault(strip(entry), default))
    IN IF n.ok THEN Min(Max(n.val, lo), hi) ELSE DecimalVal(default)

\* apify_actor.py get_user_input for the operations asked with one text and
\* at most one number (every choice but "4", the custom Actor)
apify_actor_get_user_input(choice_entry, text_entry, num_entry) ==
    LET choice == strip(choice_entry)
        text   == strip(text_entry)
    IN CASE choice = <<"1">> ->
              Request(<<"Use RAG Web Browser to search for: ">> \o text,
                      [query |-> text, max_results |-> clamped(num_entry, <<"3">>, 1, 10),
                       operation |-> "rag_browser"])
         [] choice = <<"2">> ->
              Request(<<"Crawl website content from: ">> \o text,
                      [start_url |-> text,
                       max_pages |-> clamped(num_entry, <<"1", "0">>, 1, 100),
                       operation |-> "website_crawler"])
         [] choice = <<"3">> ->
              Request(<<"Extract Google search results for: ">> \o text,
                      [query |-> text,
                       max_results |-> clamped(num_entry, <<"1", "0">>, 1, 100),
                       operation |-> "google_search"])
         [] choice = <<"5">> ->
              Request(<<"Perform multi-source data extraction on: ">> \o text,
                      [topic |-> text, operation |-> "multi_source"])
         [] OTHER ->
              LET q == OrDefault(text, <<"latest technology news">>)
              IN Request(<<"Scrape data for: ">> \o q,
                         [query |-> q, operation |-> "general"])

GateScripts == {"PAID_google_search", "vectara", "apify_actor"}

InitGate ==
    /\ script \in GateScripts
    /\ environ \in Environments(script)
    /\ absent = {}
    /\ pc = "main"
    /\ typed = NoTyped
    /\ request = NoRequest /\ kickoffs = 0 /\ attempts = <<>> /\ out = <<>>
    /\ uncaught = NoExc
    /\ tool_call = NoCall /\ tool_ret = NoRet /\ inner = NoExc /\ outbound = <<>>
    /\ term_list = <<>> /\ idx = 0 /\ comparison_results = <<>>

\* PAID_google_search.py main up to get_user_input
main_PAID_google_search ==
    /\ script = "PAID_google_search"
    /\ CheckRequirements

\* vectara.py main up to the crew run: it asks nothing and builds its task
\* on a fixed question
main_vectara ==
    /\ script = "vectara"
    /\ pc = "main"
    /\ IF vectara_credentials # <<>>
       THEN /\ out' = vectara_credentials
            /\ pc' = "done"
            /\ UNCHANGED request
       ELSE /\ out' = <<Block("banner", <<"Starting Vectara RAG Test with Gemini 2.5 Flash...">>)>>
            /\ request' = create_rag_task("What is artificial intelligence?")
            /\ pc' = "ready"
    /\ UNCHANGED <<script, environ, absent, uncaught, typed, kickoffs, attempts,
                   toolVars, trendVars>>

\* apify_actor.py main up to get_user_input
main_apify_actor ==
    /\ script = "apify_actor"
    /\ pc = "main"
    /\ IF apify_actor_credentials # <<>>
       THEN out' = apify_actor_credentials /\ pc' = "done"
       ELSE out' = out /\ pc' = "input"
    /\ UNCHANGED <<script, environ, absent, uncaught, typed, request, kickoffs, attempts,
                   toolVars, trendVars>>

\* apify_actor.py: get_user_input() and the "Request:" print
apify_actor_input ==
    /\ script = "apify_actor"
    /\ \E c \in ChoiceEntries \ {<<"4">>}, q \in QueryEntries, n \in NumEntries :
          UserInput(IF strip(c) \in {<<"1">>, <<"2">>, <<"3">>} THEN <<c, q, n>> ELSE <<c, q>>,
                    Asked(apify_actor_get_user_input(c, q, n), NoExc))

NextGate ==
    \/ main_PAID_google_search
    \/ main_vectara
    \/ main_apify_actor
    \/ PAID_google_search_input
    \/ apify_actor_input
    \/ Kickoff
    \/ KickoffReturns
    \/ KickoffRaises

SpecGate == InitGate /\ [][NextGate]_vars

\* C23: main looks at its credentials before anything else.  With one of
\* them missing it ends on its notice: nothing was asked of the user, no
\* task was built and the crew was not run.
C23_ChecksBeforePrompt ==
    (pc # "main" /\ ~PassesCredentialGate) =>
        /\ pc = "done"
        /\ typed = NoTyped
        /\ request = NoRequest
        /\ kickoffs = 0 /\ attempts = <<>>
        /\ Len(out) = 1 /\ out[1].kind = "missing_credentials"

\* apify_actor.py started with an empty APIFY_API_TOKEN has ended on its
\* notice
C23_Witness ==
    /\ script = "apify_actor" /\ pc = "done"
    /\ Truthy(GEMINI_API_KEY) /\ APIFY_API_TOKEN = ""
    /\ typed = NoTyped /\ kickoffs = 0
    /\ out = apify_actor_credentials

----------------------------------------------------------------------------
(* The prompt of the loop mains (Spec) *)

ExitWords == {<<"e", "x", "i", "t">>, <<"q", "u", "i", "t">>, <<"q">>}

\* C24: in the loops of wikipedia.py, wolfram_alpha.py and writer_tools.py
\* a blank entry builds no task and is followed by the prompt again; exit,
\* quit or q in any letter case ends the loop with no task built; and an
\* exception that comes out of a crew run ends main, after which nothing
\* more is asked.
C24_LoopPromptAndSessionEnd ==
    [][(script \in LoopScripts) =>
         /\ pc = "prompt" =>
               LET topic == strip(typed'.entries[1])
               IN /\ typed'.at = "prompt"
                  /\ topic = <<>> =>
                        pc' = "prompt" /\ request' = request /\ kickoffs' = kickoffs
                  /\ lower(topic) \in ExitWords =>
                        /\ pc' = "done"
                        /\ request' = request /\ kickoffs' = kickoffs
                        /\ out'[Len(out')].kind = "goodbye"
                  /\ (topic # <<>> /\ lower(topic) \notin ExitWords) =>
                        pc' \in {"ready", "task_type"}
         /\ (pc = "running" /\ (uncaught' # uncaught \/ Printed("error")' > Printed("error"))) =>
               pc' \in {"done", "raised"}
         /\ pc \in {"done", "raised"} => (pc' = pc /\ typed' = typed /\ request' = request)
      ]_vars

\* wikipedia.py ended on the exception of its first crew run, with a second
\* request still to come
C24_Witness ==
    /\ script = "wikipedia" /\ pc = "done"
    /\ kickoffs = 1 /\ kickoffs < MaxRequests
    /\ out[Len(out)] = Block("error", <<"Error: ", "boom">>)
    /\ Printed("results") = 0

----------------------------------------------------------------------------
(* The task type of writer_tools.py (Spec) *)

\* C25: get_task_type hands main a task type only for an entry that is one
\* of the numbers 1 to 4, and then the type of that number; on every other
\* entry it asks again and main builds nothing.  So the crew of writer_tools
\* only runs tasks of the four types, and the "generate" description that
\* create_writer_task falls back to for an unknown type is met only by
\* callers other than main.
C25_TaskTypeOneOfFour ==
    [][(script = "writer_tools") =>
         /\ pc = "task_type" =>
               LET n == int(typed'.entries[1])
               IN /\ typed'.at = "get_task_type"
                  /\ IF n.ok /\ n.val \in 1..4
                     THEN /\ pc' = "ready"
                          /\ request'.params =
                                [query |-> request.params.query, task_type |-> TaskTypes[n.val]]
                     ELSE /\ pc' = "task_type"
                          /\ request' = request /\ out' = out /\ kickoffs' = kickoffs
         /\ pc' \in {"ready", "running"} => request'.params.task_type \in Range(TaskTypes)
         /\ create_task(script, "summarize", <<"t">>).request
               = create_task(script, "generate", <<"t">>).request
         /\ \A t \in Range(TaskTypes) \ {"generate"} :
               create_task(script, t, <<"t">>).request
                   # create_task(script, "generate", <<"t">>).request
      ]_vars

\* "5x" was typed at the task type prompt: no task type, the prompt again
C25_Witness ==
    /\ script = "writer_tools" /\ pc = "task_type"
    /\ typed = Typed("get_task_type", <<<<"5", "x">>>>)
    /\ request.params.task_type = None
    /\ kickoffs = 1

----------------------------------------------------------------------------
(* get_user_input of youtube.py (SpecInputs) *)

\* C26: get_user_input of youtube.py returns a topic that is not empty and
\* a number of videos from 1 to 20.  A blank topic becomes "lex fridman"; at
\* the number prompt a blank entry gives 5, a number above 20 gives 20, a
\* number from 1 to 20 itself, and an entry that is no positive integer is
\* neither taken nor replaced: the prompt comes again.
C26_TopicAndCountWithinBounds ==
    [][(script = "youtube") =>
         /\ pc = "input" =>
               /\ pc' = "number"
               /\ request'.params.topic =
                     IF strip(typed'.entries[1]) = <<>> THEN <<"lex fridman">>
                     ELSE strip(typed'.entries[1])
         /\ pc = "number" =>
               LET e == strip(typed'.entries[1])
                   n == int(e)
                   returns(k) == /\ pc' = "ready"
                                 /\ request'.params.num_results = k
                                 /\ request'.params.topic = request.params.topic
               IN CASE e = <<>>             -> returns(5)
                    [] n.ok /\ n.val > 20   -> returns(20)
                    [] n.ok /\ n.val \in 1..20 -> returns(n.val)
                    [] OTHER -> pc' = "number" /\ request' = request /\ out' = out
         /\ pc' = "ready" =>
               /\ request'.params.topic # <<>>
               /\ request'.params.num_results \in 1..20
      ]_vars

\* "21" was typed for the number of videos: get_user_input returned 20
C26_Witness ==
    /\ script = "youtube" /\ pc = "ready"
    /\ typed = Typed("number", <<<<"2", "1">>>>)
    /\ request.params.num_results = 20
    /\ request.params.topic = <<"lex fridman">>

----------------------------------------------------------------------------
(* search_web_detailed and a result type it does not know (SpecTools) *)

\* search_web_detailed was called with a result_type outside the four
UnknownResultType ==
    /\ tool_call.tool = "search_web_detailed"
    /\ tool_call.args[2] \notin {"search", "images", "news", "places"}

\* C27: search_web_detailed called with a result_type it does not know asks
\* the provider for type "search"; what the provider then gives is left
\* out: the text returned is the header line for "search" and nothing else.
\* (With SERPER_API_KEY missing no call is made, and a provider that raises
\* gives the failure text.)
C27_UnknownTypeHeaderOnly ==
    UnknownResultType =>
        /\ Truthy(SERPER_API_KEY) <=> outbound # <<>>
        /\ outbound # <<>> =>
              /\ Len(outbound) = 1
              /\ outbound[1].type = "search"
              /\ inner = NoExc <=> ~ReturnedError /\ tool_ret.kind = "return"
              /\ inner = NoExc =>
                    tool_ret = Returned(<<"Detailed ", "search", " results for '",
                                          tool_call.args[1], "':">>)

\* result_type "videos": the provider was asked for "search" and answered,
\* and the text has the five pieces of the header only
C27_Witness ==
    /\ UnknownResultType
    /\ tool_call.args[2] = "videos"
    /\ Len(outbound) = 1 /\ outbound[1].type = "search"
    /\ inner = NoExc
    /\ Len(tool_ret.value) = 5
    /\ "**Top Organic Results:**" \notin Range(tool_ret.value)

----------------------------------------------------------------------------
(* SpecAgentQL: agentQL.py, its tool called directly and its              *)
(* get_user_input run by main                                              *)

InitAgentQL ==
    /\ script = "agentQL"
    /\ InitTools \/ InitInputs

NextAgentQL ==
    \/ call_agentql_extract_web_data
    \/ agentQL_input

SpecAgentQL == InitAgentQL /\ [][NextAgentQL]_vars

\* C28: agentql_extract_web_data always sends the url, with the query when
\* one is given, else with the prompt when one is given, else alone: never
\* with both.  get_user_input asks for a query only when the prompt was
\* left blank, so the request it returns never has both.
C28_QueryOrPromptNeverBoth ==
    /\ tool_call.tool = "agentql_extract_web_data" =>
          LET prompt == tool_call.args[2]
              query  == tool_call.args[3]
          IN /\ Len(outbound) = 1
             /\ outbound[1].params.url = tool_call.args[1]
             /\ outbound[1].params.query = (IF query # "" THEN query ELSE None)
             /\ outbound[1].params.prompt =
                   (IF query = "" /\ prompt # "" THEN prompt ELSE None)
             /\ outbound[1].params.query = None \/ outbound[1].params.prompt = None
    /\ (script = "agentQL" /\ typed.at = "get_user_input" /\ pc = "ready") =>
          /\ request.params.prompt = strip(typed.entries[2])
          /\ request.params.query =
                (IF strip(typed.entries[2]) = <<>> THEN strip(typed.entries[3]) ELSE <<>>)
          /\ request.params.prompt = <<>> \/ request.params.query = <<>>

\* the tool was called with a prompt and a query: the query alone was sent
C28_Witness ==
    /\ tool_call.tool = "agentql_extract_web_data"
    /\ tool_call.args[2] = "p" /\ tool_call.args[3] = "q"
    /\ outbound[1].params = [url |-> "url", query |-> "q", prompt |-> None]

----------------------------------------------------------------------------
(* The pieces of compare_trends' input and its provider calls (SpecTrends) *)

\* where the commas of the input are
Commas(terms) == {i \in DOMAIN terms : terms[i] = ","}

\* the i-th stretch of the input between two commas (or an end)
piece(terms, i) ==
    LET nth(k) == CHOOSE p \in Commas(terms) :
                     Cardinality({q \in Commas(terms) : q < p}) = k - 1
        from == IF i = 1 THEN 1 ELSE nth(i - 1) + 1
        to   == IF i = Cardinality(Commas(terms)) + 1 THEN Len(terms) ELSE nth(i) - 1
    IN Slice(terms, from, to)

AtLeastTwoTerms == <<"Please provide at least 2 terms separated by commas for comparison.">>

\* C29: with the SerpAPI key set, an input without a comma gets the
\* at-least-2-terms message and no provider call.  An input with commas
\* gets its calls one per piece in the order of the input, the piece
\* trimmed, be it empty or a repetition; when the comparison is returned
\* every piece has had exactly one.
C29_OneCallPerPieceInOrder ==
    (tool_call.tool = "compare_trends" /\ Truthy(SERP_API_KEY)) =>
        LET terms == tool_call.args[1]
            n     == Cardinality(Commas(terms)) + 1
        IN IF n < 2
           THEN /\ outbound = <<>>
                /\ pc = "returned" /\ tool_ret = Returned(AtLeastTwoTerms)
           ELSE /\ Len(outbound) <= n
                /\ \A i \in DOMAIN outbound : outbound[i].query = strip(piece(terms, i))
                /\ tool_ret # Returned(AtLeastTwoTerms)
                /\ (pc = "returned" /\ tool_ret.kind = "return" /\ inner.cls # "KeyboardInterrupt")
                      => Len(outbound) = n

\* "a," is two pieces, the second empty: the provider was asked for both
C29_Witness ==
    /\ pc = "returned" /\ tool_ret.kind = "return"
    /\ tool_call.args = << <<"a", ",">> >>
    /\ Len(outbound) = 2
    /\ outbound[1].query = <<"a">> /\ outbound[2].query = <<>>

----------------------------------------------------------------------------
(* SpecParams: apify_actor.py get_user_input for choice "4", the custom   *)
(* Actor: one turn of its parameter loop per step.  run_input is kept as   *)
(* the dict keeps it, a sequence of items in the order the keys came.      *)

\* the most turns of the parameter loop that are followed
MaxParams == 4

\* a value of run_input: an int n, a float n / 10^e, a bool (n = 1 for
\* True) or the str s
TypedValue(type, n, e, s) == [type |-> type, n |-> n, e |-> e, s |-> s]

\* float(s) on the characters the entries use: blanks around, an optional
\* sign, digits with at most one point among them; else ValueError.  The
\* value is mant / 10^places with no trailing zero counted as a place.
RECURSIVE float_normal(_, _)
float_normal(mant, places) ==
    IF places > 0 /\ mant % 10 = 0 THEN float_normal(mant \div 10, places - 1)
    ELSE [mant |-> mant, places |-> places]

float(s) ==
    LET t      == strip(s)
        signed == t # <<>> /\ t[1] \in {"-", "+"}
        body   == IF signed THEN Slice(t, 2, Len(t)) ELSE t
        points == {i \in DOMAIN body : body[i] = "."}
        ds     == SelectSeq(body, LAMBDA c : c \in Digits)
        point  == CHOOSE i \in points : TRUE
        val    == float_normal(DecimalVal(ds), IF points = {} THEN 0 ELSE Len(body) - point)
    IN IF ds # <<>> /\ Cardinality(points) <= 1 /\ Len(ds) + Cardinality(points) = Len(body)
       THEN [ok |-> TRUE,
             mant |-> IF signed /\ t[1] = "-" THEN 0 - val.mant ELSE val.mant,
             places |-> val.places]
       ELSE [ok |-> FALSE, mant |-> 0, places |-> 0]

\* the texts 'true' and 'false'
TrueText  == <<"t", "r", "u", "e">>
FalseText == <<"f", "a", "l", "s", "e">>

\* a conversion that tries float before int
typed_value_float_first(value) ==
    IF float(value).ok THEN TypedValue("float", float(value).mant, float(value).places, <<>>)
    ELSE IF lower(value) \in {TrueText, FalseText}
    THEN TypedValue("bool", IF lower(value) = TrueText THEN 1 ELSE 0, 0, <<>>)
    ELSE TypedValue("str", 0, 0, value)

\* the nested try blocks that give the value its type
typed_value(value) ==
    IF int(value).ok THEN TypedValue("int", int(value).val, 0, <<>>)
    ELSE IF float(value).ok
    THEN TypedValue("float", float(value).mant, float(value).places, <<>>)
    ELSE IF lower(value) \in {TrueText, FalseText}
    THEN TypedValue("bool", IF lower(value) = TrueText THEN 1 ELSE 0, 0, <<>>)
    ELSE TypedValue("str", 0, 0, value)

\* the keys of a dict, and d[key]
keys(d) == {d[i].key : i \in DOMAIN d}
get_item(d, key) == d[CHOOSE i \in DOMAIN d : d[i].key = key].value

\* d[key] = value
set_item(d, key, value) ==
    IF key \in keys(d)
    THEN [i \in DOMAIN d |-> IF d[i].key = key THEN [key |-> key, value |-> value] ELSE d[i]]
    ELSE Append(d, [key |-> key, value |-> value])

\* one turn of the loop on the stripped entry: whether the loop goes on,
\* whether the entry is reported as invalid, and run_input after it
param_turn(run_input, param) ==
    LET parts == split(param, "=")
        key   == parts[1]
        value == Slice(param, Len(key) + 2, Len(param))
    IN IF param = <<>> THEN [again |-> FALSE, invalid |-> FALSE, run_input |-> run_input]
       ELSE IF Len(parts) < 2 THEN [again |-> TRUE, invalid |-> TRUE, run_input |-> run_input]
       ELSE [again |-> TRUE, invalid |-> FALSE,
             run_input |-> set_item(run_input, strip(key), typed_value(value))]

\* what is typed at the Actor ID prompt and at the parameter prompt
ActorEntries == {<<"u", "/", "a">>, <<" ", "u", "/", "a">>, <<>>}

ParamEntries ==
    {<<>>, <<" ">>, <<"k">>, <<"k", "=", "5">>, <<"k", "=", "1", ".", "5">>,
     <<"k", "=", "T", "r", "u", "e">>, <<"k", "=", "x">>,
     <<" ", "k", " ", "=", " ", "7", " ">>, <<"j", "=", "F", "A", "L", "S", "E">>,
     <<"k", "=", "a", "=", "b">>, <<"j", "=">>, <<"j", "=", "-", "2", ".", "0">>,
     <<"k", "=", " ", "t", "r", "u", "e">>}

InitParams ==
    /\ script = "apify_actor"
    /\ environ \in {e \in Environments(script) :
                      Truthy(e["GEMINI_API_KEY"]) /\ Truthy(e["APIFY_API_TOKEN"])}
    /\ absent = {}
    /\ pc = "input"
    /\ typed = NoTyped
    /\ request = NoRequest /\ kickoffs = 0 /\ attempts = <<>> /\ out = <<>>
    /\ uncaught = NoExc
    /\ tool_call = NoCall /\ tool_ret = NoRet /\ inner = NoExc /\ outbound = <<>>
    /\ term_list = <<>> /\ idx = 0 /\ comparison_results = <<>>

\* choice "4", the Actor ID, and run_input = {}
custom_actor_id ==
    /\ pc = "input"
    /\ \E a \in ActorEntries :
          /\ typed' = Typed("actor_id", <<a>>)
          /\ request' = Request(<<>>, [actor_id |-> strip(a), run_input |-> <<>>,
                                       operation |-> "none"])
    /\ pc' = "param"
    /\ UNCHANGED <<script, environ, absent, kickoffs, attempts, out, uncaught,
                   toolVars, trendVars>>

\* one turn of `while True`, idx counting the turns taken; the turn that
\* ends the loop returns the request to main, which prints it
custom_actor_param ==
    /\ pc = "param"
    /\ idx < MaxParams
    /\ idx' = idx + 1
    /\ \E entry \in ParamEntries :
          LET turn == param_turn(request.params.run_input, strip(entry))
          IN /\ typed' = Typed("param", <<entry>>)
             /\ IF turn.again
                THEN /\ request' = [request EXCEPT !.params.run_input = turn.run_input]
                     /\ pc' = "param"
                     /\ out' = IF turn.invalid
                               THEN Append(out, Block("error", <<"Invalid format. Use key=value">>))
                               ELSE out
                ELSE /\ request' = Request(<<"Run custom Actor: ">> \o request.params.actor_id,
                                           [request.params EXCEPT !.operation = "custom_actor"])
                     /\ pc' = "ready"
                     /\ out' = Append(out, Block("banner",
                                   <<"Request: ", "Run custom Actor: ">> \o request.params.actor_id))
    /\ UNCHANGED <<script, environ, absent, kickoffs, attempts, uncaught,
                   toolVars, term_list, comparison_results>>

NextParams ==
    \/ custom_actor_id
    \/ custom_actor_param

SpecParams == InitParams /\ [][NextParams]_vars


----------------------------------------------------------------------------
(* What one turn of the parameter loop does to run_input (SpecParams) *)

\* C30: in the custom Actor's parameter loop, the turn that gets an empty
\* entry is the only one that ends the loop; an entry without '=' changes
\* nothing and the loop goes on; an entry key=value sets the trimmed key,
\* new or set before, and changes no other key; the value is kept as an int
\* if int() takes it, else as a float if float() takes it, else as a bool
\* if it is true or false in whatever case, else as the text it is.
C30_ParamSetsOneKeyTyped ==
    [][(pc = "param") =>
        \A entry \in {typed'.entries[1]}, after \in {request'.params.run_input} :
          LET param  == strip(entry)
              before == request.params.run_input
              eq     == {i \in DOMAIN param : param[i] = "="}
              first  == CHOOSE i \in eq : \A j \in eq : i <= j
              key    == strip(Slice(param, 1, first - 1))
              value  == Slice(param, first + 1, Len(param))
              stored == get_item(after, key)
          IN /\ (pc' = "ready") <=> (param = <<>>)
             /\ pc' \in {"ready", "param"}
             /\ eq = {} => after = before
             /\ eq # {} =>
                   /\ keys(after) = keys(before) \cup {key}
                   /\ Len(after) = Cardinality(keys(after))
                   /\ \A k \in keys(before) \ {key} : get_item(after, k) = get_item(before, k)
                   /\ IF int(value).ok
                      THEN stored = TypedValue("int", int(value).val, 0, <<>>)
                      ELSE IF float(value).ok
                      THEN stored = TypedValue("float", float(value).mant,
                                               float(value).places, <<>>)
                      ELSE IF lower(value) \in {TrueText, FalseText}
                      THEN stored = TypedValue("bool", IF lower(value) = TrueText THEN 1 ELSE 0,
                                               0, <<>>)
                      ELSE stored = TypedValue("str", 0, 0, value)
    ]_vars

\* after j=FALSE, k=5 and k=True the entry k, without '=', was reported
\* and changed nothing: the second k had replaced the first, j is as it was
C30_Witness ==
    /\ pc = "param" /\ idx = 4
    /\ typed.entries = << <<"k">> >>
    /\ out = <<Block("error", <<"Invalid format. Use key=value">>)>>
    /\ request.params.run_input =
          <<[key |-> <<"j">>, value |-> TypedValue("bool", 0, 0, <<>>)],
            [key |-> <<"k">>, value |-> TypedValue("bool", 1, 0, <<>>)]>>

====
